---- MODULE Spec2Model ----
(**************************************************************************)
(* llmcache: a local cache of prompt/response pairs keyed by a content    *)
(* hash.  The module models the cache facade (src/core/cache.js), the     *)
(* JSON file backend (src/core/storage.js), the usage limits              *)
(* (license/limits) and the license predicate, as a state machine over    *)
(* the files the program keeps on disk.                                   *)
(*                                                                        *)
(* Conventions.  An optional JavaScript value (undefined, null, a missing *)
(* property) is the empty sequence None, a present one is Some(v).  A     *)
(* prompt, a model name and a hash are TLA+ strings.  A response is a     *)
(* record [text, length, bytes]: its identity, its length in UTF-16 code  *)
(* units (String.length) and its length in UTF-8 bytes                    *)
(* (Buffer.byteLength); the program reads nothing else of a response.     *)
(* An ISO-8601 timestamp is the pair <<day, msOfDay>> of its date part    *)
(* and its time part, which orders like the text does.  A JavaScript      *)
(* object whose key order the program observes (the entries map) is the   *)
(* sequence of its [hash, entry] pairs in insertion order.                *)
(**************************************************************************)
EXTENDS Integers, Sequences, FiniteSets, TLC

VARIABLES
    dirExists,   \* whether the cache directory exists
    indexFile,   \* index.json: [kind |-> "absent" | "corrupt" | "json", data]
    licenseFile, \* ~/.llmcache/license.json: None when absent, else Some(its data)
    now,         \* the clock, in milliseconds (Date.now())
    ret,         \* the last call: [op, val, threw]
    sinceSet,    \* history: per hash, the last facade set and the gets since
    db,          \* SQLiteStorage: None (this.db is null) or Some(rows of the table entries)
    inFlight     \* per process, the JSONStorage call that has loaded and not yet
                 \* saved: None, or Some([call, file]) with the file as loaded

vars == << dirExists, indexFile, licenseFile, now, ret, sinceSet, db, inFlight >>

None == << >>
Some(v) == << v >>
The(o) == o[1]

(* ------------------------------------------------------------------ *)
(* SHA-256 (FIPS 180-4) of a message of at most 55 bytes (one block),   *)
(* as computed by crypto.createHash('sha256').update(s).digest('hex').  *)
(* A 32-bit word is a pair <<hi, lo>> of 16-bit halves.                 *)
(* ------------------------------------------------------------------ *)
CharAt(s, i) == SubSeq(s, i, i)

IndexIn(c, run) ==
    IF \E i \in 1..Len(run) : CharAt(run, i) = c
    THEN CHOOSE i \in 1..Len(run) : CharAt(run, i) = c
    ELSE 0

\* Character codes of the ASCII characters that occur in prompts and model names.
Ord(c) ==
    LET AsciiFrom32 == " "
        AsciiFrom45 == "-./0123456789:"
        AsciiFrom63 == "?@ABCDEFGHIJKLMNOPQRSTUVWXYZ"
        AsciiFrom97 == "abcdefghijklmnopqrstuvwxyz"
    IN
    IF IndexIn(c, AsciiFrom97) > 0 THEN 96 + IndexIn(c, AsciiFrom97)
    ELSE IF IndexIn(c, AsciiFrom63) > 0 THEN 62 + IndexIn(c, AsciiFrom63)
    ELSE IF IndexIn(c, AsciiFrom45) > 0 THEN 44 + IndexIn(c, AsciiFrom45)
    ELSE 31 + IndexIn(c, AsciiFrom32)

Utf8Bytes(s) == [i \in 1..Len(s) |-> Ord(CharAt(s, i))]

Pow2(n) == 2 ^ n

\* and / exclusive or of two bit strings, bit by bit
RECURSIVE AndBits(_, _)
AndBits(a, b) ==
    IF a = 0 \/ b = 0 THEN 0
    ELSE (a % 2) * (b % 2) + 2 * AndBits(a \div 2, b \div 2)

RECURSIVE XorBits(_, _)
XorBits(a, b) ==
    IF a = 0 THEN b
    ELSE IF b = 0 THEN a
    ELSE ((a + b) % 2) + 2 * XorBits(a \div 2, b \div 2)

\* the same on bytes, tabulated
AndTable == [a \in 0..255 |-> [b \in 0..255 |-> AndBits(a, b)]]
XorTable == [a \in 0..255 |-> [b \in 0..255 |-> XorBits(a, b)]]

And32(x, y) ==
    LET And16(a, b) ==
            AndTable[a \div 256][b \div 256] * 256 + AndTable[a % 256][b % 256]
    IN  << And16(x[1], y[1]), And16(x[2], y[2]) >>

Xor32(x, y) ==
    LET Xor16(a, b) ==
            XorTable[a \div 256][b \div 256] * 256 + XorTable[a % 256][b % 256]
    IN  << Xor16(x[1], y[1]), Xor16(x[2], y[2]) >>
Add32(x, y) ==
    LET lo == x[2] + y[2]
        hi == x[1] + y[1] + (lo \div 65536)
    IN  << hi % 65536, lo % 65536 >>

RECURSIVE Rotr32(_, _)
Rotr32(x, n) ==
    IF n = 0 THEN x
    ELSE IF n >= 16 THEN Rotr32(<< x[2], x[1] >>, n - 16)
    ELSE << (x[1] \div Pow2(n)) + (x[2] % Pow2(n)) * Pow2(16 - n),
            (x[2] \div Pow2(n)) + (x[1] % Pow2(n)) * Pow2(16 - n) >>

ShaK == <<
    <<17034, 12184>>, <<28983, 17553>>, <<46528, 64463>>, <<59829, 56229>>,
    <<14678, 49755>>, <<23025, 4593>>, <<37439, 33444>>, <<43804, 24277>>,
    <<55303, 43672>>, <<4739, 23297>>, <<9265, 34238>>, <<21772, 32195>>,
    <<29374, 23924>>, <<32990, 45566>>, <<39900, 1703>>, <<49563, 61812>>,
    <<58523, 27073>>, <<61374, 18310>>, <<4033, 40390>>, <<9228, 41420>>,
    <<11753, 11375>>, <<19060, 33962>>, <<23728, 43484>>, <<30457, 35034>>,
    <<38974, 20818>>, <<43057, 50797>>, <<45059, 10184>>, <<48985, 32711>>,
    <<50912, 3059>>, <<54695, 37191>>, <<1738, 25425>>, <<5161, 10599>>,
    <<10167, 2693>>, <<11803, 8504>>, <<19756, 28156>>, <<21304, 3347>>,
    <<25866, 29524>>, <<30314, 2747>>, <<33218, 51502>>, <<37490, 11397>>,
    <<41663, 59553>>, <<43034, 26187>>, <<49739, 35696>>, <<51052, 20899>>,
    <<53650, 59417>>, <<54937, 1572>>, <<62478, 13701>>, <<4202, 41072>>,
    <<6564, 49430>>, <<7735, 27656>>, <<10056, 30540>>, <<13488, 48309>>,
    <<14620, 3251>>, <<20184, 43594>>, <<23452, 51791>>, <<26670, 28659>>,
    <<29839, 33518>>, <<30885, 25455>>, <<33992, 30740>>, <<36039, 520>>,
    <<37054, 65530>>, <<42064, 27883>>, <<48889, 41975>>, <<50801, 30962>> >>

ShaH0 == <<
    <<27145, 58983>>, <<47975, 44677>>, <<15470, 62322>>, <<42319, 62778>>,
    <<20750, 21119>>, <<39685, 26764>>, <<8067, 55723>>, <<23520, 52505>> >>

RECURSIVE Schedule(_)
Schedule(w) ==
    IF Len(w) = 64 THEN w
    ELSE LET t == Len(w) + 1
             Shr32(x, n) ==
                 IF n >= 16 THEN << 0, x[1] \div Pow2(n - 16) >>
                 ELSE << x[1] \div Pow2(n),
                         (x[2] \div Pow2(n)) + (x[1] % Pow2(n)) * Pow2(16 - n) >>
             SmallSigma0(x) == Xor32(Xor32(Rotr32(x, 7), Rotr32(x, 18)), Shr32(x, 3))
             SmallSigma1(x) == Xor32(Xor32(Rotr32(x, 17), Rotr32(x, 19)), Shr32(x, 10))
         IN  Schedule(Append(w,
                 Add32(Add32(SmallSigma1(w[t - 2]), w[t - 7]),
                       Add32(SmallSigma0(w[t - 15]), w[t - 16]))))

\* One round t of the compression function on the working variables v = <<a..h>>.
Round(v, w, t) ==
    LET Not32(x) == << 65535 - x[1], 65535 - x[2] >>
        Ch(x, y, z) == Xor32(And32(x, y), And32(Not32(x), z))
        Maj(x, y, z) == Xor32(Xor32(And32(x, y), And32(x, z)), And32(y, z))
        BigSigma0(x) == Xor32(Xor32(Rotr32(x, 2), Rotr32(x, 13)), Rotr32(x, 22))
        BigSigma1(x) == Xor32(Xor32(Rotr32(x, 6), Rotr32(x, 11)), Rotr32(x, 25))
        t1 == Add32(Add32(Add32(v[8], BigSigma1(v[5])), Ch(v[5], v[6], v[7])),
                    Add32(ShaK[t], w[t]))
        t2 == Add32(BigSigma0(v[1]), Maj(v[1], v[2], v[3]))
    IN  << Add32(t1, t2), v[1], v[2], v[3], Add32(v[4], t1), v[5], v[6], v[7] >>

\* vs holds the working variables before round 1 and after each round so far.
RECURSIVE Compress(_, _)
Compress(vs, w) ==
    IF Len(vs) = 65 THEN vs[65]
    ELSE Compress(Append(vs, Round(vs[Len(vs)], w, Len(vs))), w)

RECURSIVE HexWords(_)
HexWords(ws) ==
    LET HexDigits == "0123456789abcdef"
        Hex16(n) ==
            CharAt(HexDigits, (n \div 4096) + 1) \o CharAt(HexDigits, ((n \div 256) % 16) + 1)
                \o CharAt(HexDigits, ((n \div 16) % 16) + 1) \o CharAt(HexDigits, (n % 16) + 1)
    IN
    IF ws = << >> THEN ""
    ELSE Hex16(Head(ws)[1]) \o Hex16(Head(ws)[2]) \o HexWords(Tail(ws))

\* The padded block: the message, 0x80, zeros, and the bit length in the last 8 bytes.
PadBlock(bytes) ==
    LET n == Len(bytes)
    IN  [i \in 1..64 |->
            IF i <= n THEN bytes[i]
            ELSE IF i = n + 1 THEN 128
            ELSE IF i = 63 THEN (8 * n) \div 256
            ELSE IF i = 64 THEN (8 * n) % 256
            ELSE 0]

BlockWords(block) ==
    [t \in 1..16 |-> << block[4 * t - 3] * 256 + block[4 * t - 2],
                        block[4 * t - 1] * 256 + block[4 * t] >>]


Sha256Compute(s) ==
    LET w == Schedule(BlockWords(PadBlock(Utf8Bytes(s))))
        v == Compress(<< ShaH0 >>, w)
    IN  HexWords([i \in 1..8 |-> Add32(ShaH0[i], v[i])])

\* crypto.createHash('md5').update(keyBody).digest('hex').slice(0, 4)
\* .toUpperCase(): MD5 (RFC 1321) of a text of at most 55 bytes (one block);
\* the first two bytes of the digest are the low half of the first word.
Md5Checksum(keyBody) ==
    LET bytes == Utf8Bytes(keyBody)
        n == Len(bytes)
        block == [i \in 1..64 |->
                     IF i <= n THEN bytes[i]
                     ELSE IF i = n + 1 THEN 128
                     ELSE IF i = 57 THEN (8 * n) % 256
                     ELSE IF i = 58 THEN (8 * n) \div 256
                     ELSE 0]
        M == [g \in 0..15 |-> << block[4 * g + 4] * 256 + block[4 * g + 3],
                                 block[4 * g + 2] * 256 + block[4 * g + 1] >>]
        K == <<
            <<55146, 42104>>, <<59591, 46934>>, <<9248, 28891>>, <<49597, 52974>>,
            <<62844, 4015>>, <<18311, 50730>>, <<43056, 17939>>, <<64838, 38145>>,
            <<27008, 39128>>, <<35652, 63407>>, <<65535, 23473>>, <<35164, 55230>>,
            <<27536, 4386>>, <<64920, 29075>>, <<42617, 17294>>, <<18868, 2081>>,
            <<63006, 9570>>, <<49216, 45888>>, <<9822, 23121>>, <<59830, 51114>>,
            <<54831, 4189>>, <<580, 5203>>, <<55457, 59009>>, <<59347, 64456>>,
            <<8673, 52710>>, <<49975, 2006>>, <<62677, 3463>>, <<17754, 5357>>,
            <<43491, 59653>>, <<64751, 41976>>, <<26479, 729>>, <<36138, 19594>>,
            <<65530, 14658>>, <<34673, 63105>>, <<28061, 24866>>, <<64997, 14348>>,
            <<42174, 59972>>, <<19422, 53161>>, <<63163, 19296>>, <<48831, 48240>>,
            <<10395, 32454>>, <<60065, 10234>>, <<54511, 12421>>, <<1160, 7429>>,
            <<55764, 53305>>, <<59099, 39397>>, <<8098, 31992>>, <<50348, 22117>>,
            <<62505, 8772>>, <<17194, 65431>>, <<43924, 9127>>, <<64659, 41017>>,
            <<25947, 22979>>, <<36620, 52370>>, <<65519, 62589>>, <<34180, 24017>>,
            <<28584, 32335>>, <<65068, 59104>>, <<41729, 17172>>, <<19976, 4513>>,
            <<63315, 32386>>, <<48442, 62005>>, <<10967, 53947>>, <<60294, 54161>> >>
        S == << 7, 12, 17, 22, 7, 12, 17, 22, 7, 12, 17, 22, 7, 12, 17, 22, 5, 9, 14, 20, 5, 9, 14, 20, 5, 9, 14, 20, 5, 9, 14, 20, 4, 11, 16, 23, 4, 11, 16, 23, 4, 11, 16, 23, 4, 11, 16, 23, 6, 10, 15, 21, 6, 10, 15, 21, 6, 10, 15, 21, 6, 10, 15, 21 >>
        H0 == << <<26437, 8961>>, <<61389, 43913>>, <<39098, 56574>>, <<4146, 21622>> >>
        Not32(x) == << 65535 - x[1], 65535 - x[2] >>
        Or32(x, y) == Xor32(Xor32(x, y), And32(x, y))
        F(i, B, C, D) ==
            IF i < 16 THEN Or32(And32(B, C), And32(Not32(B), D))
            ELSE IF i < 32 THEN Or32(And32(D, B), And32(Not32(D), C))
            ELSE IF i < 48 THEN Xor32(Xor32(B, C), D)
            ELSE Xor32(C, Or32(B, Not32(D)))
        G(i) ==
            IF i < 16 THEN i
            ELSE IF i < 32 THEN (5 * i + 1) % 16
            ELSE IF i < 48 THEN (3 * i + 5) % 16
            ELSE (7 * i) % 16
        Step(v, i) ==
            LET f == Add32(Add32(F(i, v[2], v[3], v[4]), v[1]), Add32(K[i + 1], M[G(i)]))
            IN  << v[4], Add32(v[2], Rotr32(f, 32 - S[i + 1])), v[2], v[3] >>
        RECURSIVE Steps(_)
        Steps(vs) ==
            IF Len(vs) = 65 THEN vs[65]
            ELSE Steps(Append(vs, Step(vs[Len(vs)], Len(vs) - 1)))
        a0 == Add32(H0[1], Steps(<< H0 >>)[1])[2]
        HexDigits == "0123456789ABCDEF"
        Hex8(b) == CharAt(HexDigits, (b \div 16) + 1) \o CharAt(HexDigits, (b % 16) + 1)
    IN  Hex8(a0 % 256) \o Hex8(a0 \div 256)

(* ------------------------------------------------------------------ *)
(* Bounds, and the prompts and model names the model calls with.        *)
(* ------------------------------------------------------------------ *)
MaxTicks == 1        \* the clock is advanced at most this many times
MaxHits == 2         \* the model stops getting once totalHits is this large
FillerCount == 48    \* entries already stored when the limits are exercised

\* "q:p" under model "default" and "p" under model "default:q" both spell
\* "default:q:p"; "P" differs from "p" in case only.
HashPrompts == { "p", "q:p", "P" }
HashModels == { "default", "default:q" }
HashInputs == HashPrompts \X ({ None } \cup { Some(m) : m \in HashModels })

\* the prompts of the entries that fill the store up to the free limit, and of
\* the sets made at the limit
FillerPrompt(i) == "f" \o ToString(i)

\* The digests of the strings the model hashes, computed once.
HashedTexts ==
    { m \o ":" \o p : m \in HashModels, p \in HashPrompts }
        \cup { "default:" \o p :
                    p \in { "a", "b" } \cup { FillerPrompt(i) : i \in 1..FillerCount } }

Sha256Memo == [s \in HashedTexts |-> Sha256Compute(s)]

Sha256Hex(s) == IF s \in HashedTexts THEN Sha256Memo[s] ELSE Sha256Compute(s)

\* A faulty variant of hashPrompt, which hashes the prompt as if every model
\* were 'default'; C10 must tell it from hashPrompt.
hashPrompt_ignoresModel(prompt, model) ==
    SubSeq(Sha256Hex("default:" \o prompt), 1, 12)

\* function hashPrompt(prompt, model = 'default')
hashPrompt(prompt, model) ==
    LET m == IF model = None THEN "default" ELSE The(model)
        content == m \o ":" \o prompt
    IN  SubSeq(Sha256Hex(content), 1, 12)

(* ------------------------------------------------------------------ *)
(* Time: Date.now() is `now`; toISOString and new Date(text).           *)
(* ------------------------------------------------------------------ *)
DayMs == 24 * 3600000

toISOString(ms) == << ms \div DayMs, ms % DayMs >>
DateParse(iso) == iso[1] * DayMs + iso[2]

(* ------------------------------------------------------------------ *)
(* license/checker: the license file and the functions that read and    *)
(* write it.  activateLicense and deactivateLicense return the file     *)
(* they leave and the value they return.                                *)
(* ------------------------------------------------------------------ *)
\* function getLicense(): the data of the license file, or None (null)
getLicense ==
    IF licenseFile = None THEN None
    ELSE LET data == The(licenseFile)
         IN  IF data.key = "" \/ SubSeq(data.key, 1, 4) # "LMC-" THEN None
             ELSE IF data.expiresAt # None /\ DateParse(The(data.expiresAt)) < now THEN None
             ELSE Some(data)

\* function isPro()
isPro == getLicense # None

\* A faulty variant of activateLicense, which does not compare the checksum;
\* C34 must tell it from activateLicense.
activateLicense_anyChecksum(key) ==
    IF key = None \/ The(key) = "" \/ SubSeq(The(key), 1, 4) # "LMC-"
    THEN [file |-> licenseFile,
          val |-> [success |-> FALSE,
                   message |-> "Invalid license key format. Expected: LMC-XXXX-XXXX-XXXX-XXXX"]]
    ELSE LET RECURSIVE split(_, _, _)
             split(i, part, parts) ==
                 IF i > Len(The(key)) THEN Append(parts, part)
                 ELSE IF CharAt(The(key), i) = "-" THEN split(i + 1, "", Append(parts, part))
                 ELSE split(i + 1, part \o CharAt(The(key), i), parts)
             parts == split(1, "", << >>)
         IN  IF Len(parts) # 5
             THEN [file |-> licenseFile,
                   val |-> [success |-> FALSE, message |-> "Invalid license key format"]]
             ELSE [file |-> Some([key |-> The(key), activatedAt |-> toISOString(now),
                                  machine |-> "hostname", expiresAt |-> None]),
                   val |-> [success |-> TRUE, message |-> "License activated successfully"]]

\* function activateLicense(key); key is None for null
activateLicense(key) ==
    IF key = None \/ The(key) = "" \/ SubSeq(The(key), 1, 4) # "LMC-"
    THEN [file |-> licenseFile,
          val |-> [success |-> FALSE,
                   message |-> "Invalid license key format. Expected: LMC-XXXX-XXXX-XXXX-XXXX"]]
    ELSE LET RECURSIVE split(_, _, _)
             split(i, part, parts) ==
                 IF i > Len(The(key)) THEN Append(parts, part)
                 ELSE IF CharAt(The(key), i) = "-" THEN split(i + 1, "", Append(parts, part))
                 ELSE split(i + 1, part \o CharAt(The(key), i), parts)
             parts == split(1, "", << >>)
             keyBody == parts[1] \o "-" \o parts[2] \o "-" \o parts[3] \o "-" \o parts[4]
             checksum == parts[5]
         IN  IF Len(parts) # 5
             THEN [file |-> licenseFile,
                   val |-> [success |-> FALSE, message |-> "Invalid license key format"]]
             ELSE IF checksum # Md5Checksum(keyBody)
             THEN [file |-> licenseFile,
                   val |-> [success |-> FALSE, message |-> "Invalid license key"]]
             ELSE [file |-> Some([key |-> The(key), activatedAt |-> toISOString(now),
                                  machine |-> "hostname", expiresAt |-> None]),
                   val |-> [success |-> TRUE, message |-> "License activated successfully"]]

\* function deactivateLicense()
deactivateLicense ==
    IF licenseFile # None
    THEN [file |-> None, val |-> [success |-> TRUE, message |-> "License deactivated"]]
    ELSE [file |-> licenseFile, val |-> [success |-> FALSE, error |-> "No active license found"]]

(* ------------------------------------------------------------------ *)
(* license/constants and license/limits                                 *)
(* ------------------------------------------------------------------ *)
FREE_LIMITS == [maxEntries |-> 50, maxResponseSize |-> 10 * 1024]

\* Math.round of the quotient of two non-negative integers
RoundDiv(a, b) == (2 * a + b) \div (2 * b)

\* A faulty variant of canAddEntry, which refuses only above the limit; C4
\* must tell it from canAddEntry.
canAddEntry_offByOne(currentCount) ==
    IF isPro THEN [allowed |-> TRUE]
    ELSE IF currentCount > FREE_LIMITS.maxEntries
    THEN [allowed |-> FALSE, reason |-> "FREE version limited"]
    ELSE [allowed |-> TRUE]

canAddEntry(currentCount) ==
    IF isPro THEN [allowed |-> TRUE]
    ELSE IF currentCount >= FREE_LIMITS.maxEntries
    THEN [allowed |-> FALSE,
          reason |-> "FREE version limited to " \o ToString(FREE_LIMITS.maxEntries)
                        \o " cache entries"]
    ELSE [allowed |-> TRUE]

\* A faulty variant of checkResponseSize, which refuses a response of exactly
\* the limit; C5 must tell it from checkResponseSize.
checkResponseSize_inclusive(size) ==
    IF isPro THEN [allowed |-> TRUE, size |-> size]
    ELSE IF size >= FREE_LIMITS.maxResponseSize
    THEN [allowed |-> FALSE, reason |-> "FREE version limited"]
    ELSE [allowed |-> TRUE, size |-> size]

checkResponseSize(size) ==
    IF isPro THEN [allowed |-> TRUE, size |-> size]
    ELSE IF size > FREE_LIMITS.maxResponseSize
    THEN [allowed |-> FALSE,
          reason |-> "FREE version limited to "
                        \o ToString(RoundDiv(FREE_LIMITS.maxResponseSize, 1024))
                        \o "KB responses (found " \o ToString(RoundDiv(size, 1024)) \o "KB)"]
    ELSE [allowed |-> TRUE, size |-> size]

(* ------------------------------------------------------------------ *)
(* The entries object: [hash, entry] pairs in insertion order.          *)
(* ------------------------------------------------------------------ *)
Keys(entries) == { entries[i].hash : i \in 1..Len(entries) }
Has(entries, hash) == \E i \in 1..Len(entries) : entries[i].hash = hash
Lookup(entries, hash) ==
    entries[CHOOSE i \in 1..Len(entries) : entries[i].hash = hash].entry

\* entries[hash] = entry: an existing key keeps its place, a new one goes last
Put(entries, hash, entry) ==
    IF Has(entries, hash)
    THEN [i \in 1..Len(entries) |->
            IF entries[i].hash = hash THEN [hash |-> hash, entry |-> entry]
            ELSE entries[i]]
    ELSE Append(entries, [hash |-> hash, entry |-> entry])

\* delete entries[hash]
Remove(entries, hash) == SelectSeq(entries, LAMBDA e : e.hash # hash)

(* ------------------------------------------------------------------ *)
(* class JSONStorage.  Each method is an operator on the content f of   *)
(* index.json and yields the content afterwards and the value returned. *)
(* ------------------------------------------------------------------ *)
AbsentFile == [kind |-> "absent"]
CorruptFile == [kind |-> "corrupt"]

EmptyStats == [totalEntries |-> 0, totalHits |-> 0, totalSaved |-> 0, costSaved |-> << >>]

\* A faulty variant of load, which reads a file that cannot be parsed as an
\* empty document; C20 must tell it from load.
load_corruptIsEmpty(f) ==
    IF f.kind = "json" THEN Some(f.data)
    ELSE IF f.kind = "corrupt"
    THEN Some([entries |-> << >>, stats |-> EmptyStats,
               meta |-> [backend |-> "json", created |-> toISOString(0)]])
    ELSE None

\* load(): null when the file is missing or JSON.parse throws
load(f) == IF f.kind = "json" THEN Some(f.data) ELSE None

\* save(data): the whole document is written
save(data) == [kind |-> "json", data |-> data]

\* A faulty variant of init, which writes an empty document whether index.json
\* exists or not; C21 must tell it from init.
JSONStorage_init_rewrites(f, clock) ==
    [file |-> save([entries |-> << >>,
                    stats |-> EmptyStats,
                    meta |-> [backend |-> "json", created |-> toISOString(clock)]]),
     val |-> [success |-> TRUE]]

\* init(): writes an empty document only when index.json does not exist
JSONStorage_init(f, clock) ==
    [file |-> IF f.kind = "absent"
              THEN save([entries |-> << >>,
                         stats |-> EmptyStats,
                         meta |-> [backend |-> "json", created |-> toISOString(clock)]])
              ELSE f,
     val |-> [success |-> TRUE]]

JSONStorage_get(f, hash) ==
    LET data == load(f)
    IN  IF data = None THEN None
        ELSE IF Has(The(data).entries, hash) THEN Some(Lookup(The(data).entries, hash))
        ELSE None

\* A faulty variant of set, which counts no set as a new entry; C38 must
\* tell it from set.
JSONStorage_set_neverCounts(f, hash, entry) ==
    LET data == load(f)
    IN  IF data = None
        THEN [file |-> f, val |-> [success |-> FALSE, error |-> "Storage not initialized"]]
        ELSE LET d == The(data)
             IN  [file |-> save([d EXCEPT !.entries = Put(d.entries, hash, entry)]),
                  val |-> [success |-> TRUE, isNew |-> ~Has(d.entries, hash)]]

\* A faulty variant of set, which counts every set as a new entry; C2 must
\* tell it from set.
JSONStorage_set_alwaysCounts(f, hash, entry) ==
    LET data == load(f)
    IN  IF data = None
        THEN [file |-> f, val |-> [success |-> FALSE, error |-> "Storage not initialized"]]
        ELSE LET d == The(data)
             IN  [file |-> save([d EXCEPT !.entries = Put(d.entries, hash, entry),
                                          !.stats.totalEntries = @ + 1]),
                  val |-> [success |-> TRUE, isNew |-> ~Has(d.entries, hash)]]

JSONStorage_set(f, hash, entry) ==
    LET data == load(f)
    IN  IF data = None
        THEN [file |-> f, val |-> [success |-> FALSE, error |-> "Storage not initialized"]]
        ELSE LET d == The(data)
                 isNew == ~Has(d.entries, hash)
                 stats == IF isNew
                          THEN [d.stats EXCEPT !.totalEntries = @ + 1]
                          ELSE d.stats
             IN  [file |-> save([d EXCEPT !.entries = Put(d.entries, hash, entry),
                                          !.stats = stats]),
                  val |-> [success |-> TRUE, isNew |-> isNew]]

\* A faulty variant of delete, which reports success for a hash that is not
\* stored; C8 must tell it from delete.
JSONStorage_delete_alwaysSucceeds(f, hash) ==
    LET data == load(f)
    IN  IF data = None THEN [file |-> f, val |-> [success |-> FALSE]]
        ELSE LET d == The(data)
             IN  IF Has(d.entries, hash)
                 THEN [file |-> save([d EXCEPT !.entries = Remove(d.entries, hash),
                                               !.stats.totalEntries = @ - 1]),
                       val |-> [success |-> TRUE]]
                 ELSE [file |-> f, val |-> [success |-> TRUE]]

JSONStorage_delete(f, hash) ==
    LET data == load(f)
    IN  IF data = None THEN [file |-> f, val |-> [success |-> FALSE]]
        ELSE LET d == The(data)
             IN  IF Has(d.entries, hash)
                 THEN [file |-> save([d EXCEPT !.entries = Remove(d.entries, hash),
                                               !.stats.totalEntries = @ - 1]),
                       val |-> [success |-> TRUE]]
                 ELSE [file |-> f, val |-> [success |-> FALSE]]

\* list(): every entry with its hash, in the order of the entries object
JSONStorage_list(f) ==
    LET data == load(f)
    IN  IF data = None THEN << >> ELSE The(data).entries

\* getStats(): the stored stats (cacheSize, the size of the file, is not modelled)
JSONStorage_getStats(f) ==
    LET data == load(f)
    IN  IF data = None THEN None ELSE Some(The(data).stats)

\* updateStats(updates), for the updates the facade makes: totalHits and totalSaved
JSONStorage_updateStats(f, totalHits, totalSaved) ==
    LET data == load(f)
    IN  IF data = None THEN f
        ELSE save([The(data) EXCEPT !.stats.totalHits = totalHits,
                                    !.stats.totalSaved = totalSaved])

\* parseInt(text) of a text without sign or leading blanks: the value of its
\* leading decimal digits, None (NaN) when it starts with no digit

DecimalDigits == "0123456789"

RECURSIVE LeadingDigits(_, _)
LeadingDigits(s, i) ==
    IF i <= Len(s) /\ IndexIn(CharAt(s, i), DecimalDigits) > 0
    THEN LeadingDigits(s, i + 1)
    ELSE i - 1

RECURSIVE DigitsValue(_, _)
DigitsValue(s, n) ==
    IF n = 0 THEN 0
    ELSE 10 * DigitsValue(s, n - 1) + (IndexIn(CharAt(s, n), DecimalDigits) - 1)

parseInt(s) ==
    LET n == LeadingDigits(s, 1)
    IN  IF n = 0 THEN None ELSE Some(DigitsValue(s, n))

\* a JavaScript string option is truthy when it is given and not empty
Truthy(opt) == opt # None /\ The(opt) # ""

\* A faulty variant of clear, which resets totalEntries only when it removes
\* everything; C6 must tell it from clear.
JSONStorage_clear_keepsHits(f, olderThan, clock) ==
    LET data == load(f)
    IN  IF data = None THEN [file |-> f, val |-> [success |-> FALSE, removed |-> 0]]
        ELSE LET d == The(data)
             IN  [file |-> save([d EXCEPT !.entries = << >>, !.stats.totalEntries = 0]),
                  val |-> [success |-> TRUE, removed |-> Len(d.entries)]]

\* A faulty variant of clear, which also removes the entries created exactly
\* at the cutoff; C7 must tell it from clear.
JSONStorage_clear_inclusive(f, olderThan, clock) ==
    LET data == load(f)
    IN  IF data = None THEN [file |-> f, val |-> [success |-> FALSE, removed |-> 0]]
        ELSE LET d == The(data)
                 days == IF Truthy(olderThan) THEN parseInt(The(olderThan)) ELSE None
                 kept == SelectSeq(d.entries,
                             LAMBDA e : /\ days # None
                                        /\ DateParse(e.entry.created) > clock - The(days) * DayMs)
             IN  [file |-> save([d EXCEPT !.entries = kept,
                                          !.stats.totalEntries = Len(kept)]),
                  val |-> [success |-> TRUE, removed |-> Len(d.entries) - Len(kept)]]

\* clear(options): olderThan is the text the command line passes, or None
JSONStorage_clear(f, olderThan, clock) ==
    LET data == load(f)
    IN  IF data = None THEN [file |-> f, val |-> [success |-> FALSE, removed |-> 0]]
        ELSE LET d == The(data)
             IN  IF Truthy(olderThan)
                 THEN LET days == parseInt(The(olderThan))
                          \* cutoff.setDate(cutoff.getDate() - days), days of 24 hours;
                          \* an invalid date (days is NaN) is earlier than nothing
                          Old(e) == /\ days # None
                                    /\ DateParse(e.entry.created) < clock - The(days) * DayMs
                          kept == SelectSeq(d.entries, LAMBDA e : ~Old(e))
                          removed == Len(d.entries) - Len(kept)
                      IN  [file |-> save([d EXCEPT !.entries = kept,
                                                   !.stats.totalEntries = @ - removed]),
                           val |-> [success |-> TRUE, removed |-> removed]]
                 ELSE [file |-> save([d EXCEPT !.entries = << >>, !.stats = EmptyStats]),
                       val |-> [success |-> TRUE, removed |-> Cardinality(Keys(d.entries))]]

\* A faulty variant of exportData, which leaves out the entries that have an
\* expiry; C15 must tell it from exportData.
JSONStorage_exportData_withoutExpiring(f) ==
    IF load(f) = None THEN None
    ELSE Some([The(load(f)) EXCEPT
                  !.entries = SelectSeq(@, LAMBDA e : e.entry.expires = None)])

\* exportData(): the document as loaded
JSONStorage_exportData(f) == load(f)

\* A faulty variant of the loop, which inserts under 'replace' and 'merge'
\* only, so that 'skip-existing' inserts nothing; C12 must tell it from the loop.
RECURSIVE ImportLoop_namedOnly(_, _, _, _)
ImportLoop_namedOnly(entries, incoming, strategy, imported) ==
    IF incoming = << >> THEN [entries |-> entries, imported |-> imported]
    ELSE LET e == Head(incoming)
             has == Has(entries, e.hash)
         IN  IF strategy = "replace" \/ (strategy = "merge" /\ ~has)
             THEN ImportLoop_namedOnly(Put(entries, e.hash, e.entry), Tail(incoming),
                                       strategy, imported + 1)
             ELSE ImportLoop_namedOnly(entries, Tail(incoming), strategy, imported)

\* the loop of importData over Object.entries(importedData.entries || {})
RECURSIVE ImportLoop(_, _, _, _)
ImportLoop(entries, incoming, strategy, imported) ==
    IF incoming = << >> THEN [entries |-> entries, imported |-> imported]
    ELSE LET e == Head(incoming)
             has == Has(entries, e.hash)
         IN  IF strategy = "skip-existing" /\ has
             THEN ImportLoop(entries, Tail(incoming), strategy, imported)
             ELSE IF strategy = "replace" \/ ~has
             THEN ImportLoop(Put(entries, e.hash, e.entry), Tail(incoming),
                             strategy, imported + 1)
             ELSE IF strategy = "merge" /\ ~has
             THEN ImportLoop(Put(entries, e.hash, e.entry), Tail(incoming),
                             strategy, imported + 1)
             ELSE ImportLoop(entries, Tail(incoming), strategy, imported)

\* A faulty variant of importData, which adds the number imported to
\* totalEntries instead of counting the keys; C3 must tell it from importData.
JSONStorage_importData_addsImported(f, importedData, strategy) ==
    LET data == load(f)
    IN  IF data = None THEN [file |-> f, val |-> [success |-> FALSE, imported |-> 0]]
        ELSE LET d == The(data)
                 s == IF strategy = None THEN "merge" ELSE The(strategy)
                 incoming == IF importedData.entries = None THEN << >>
                             ELSE The(importedData.entries)
                 out == ImportLoop(d.entries, incoming, s, 0)
             IN  [file |-> save([d EXCEPT !.entries = out.entries,
                                          !.stats.totalEntries = @ + out.imported]),
                  val |-> [success |-> TRUE, imported |-> out.imported]]

\* A faulty variant of importData, under which 'replace' counts only the keys
\* that are new; C13 must tell it from importData.
JSONStorage_importData_replaceCountsNew(f, importedData, strategy) ==
    LET data == load(f)
    IN  IF data = None THEN [file |-> f, val |-> [success |-> FALSE, imported |-> 0]]
        ELSE LET d == The(data)
                 s == IF strategy = None THEN "merge" ELSE The(strategy)
                 incoming == IF importedData.entries = None THEN << >>
                             ELSE The(importedData.entries)
                 out == ImportLoop(d.entries, incoming, s, 0)
             IN  [file |-> save([d EXCEPT !.entries = out.entries,
                                          !.stats.totalEntries =
                                              Cardinality(Keys(out.entries))]),
                  val |-> [success |-> TRUE,
                           imported |-> Cardinality(Keys(out.entries))
                                            - Cardinality(Keys(d.entries))]]

\* A faulty variant of importData, under which 'merge' overwrites the entries
\* that exist; C14 must tell it from importData.
JSONStorage_importData_mergeOverwrites(f, importedData, strategy) ==
    LET data == load(f)
    IN  IF data = None THEN [file |-> f, val |-> [success |-> FALSE, imported |-> 0]]
        ELSE LET d == The(data)
                 s == IF strategy = None \/ strategy = Some("merge") THEN "replace"
                      ELSE The(strategy)
                 incoming == IF importedData.entries = None THEN << >>
                             ELSE The(importedData.entries)
                 out == ImportLoop(d.entries, incoming, s, 0)
             IN  [file |-> save([d EXCEPT !.entries = out.entries,
                                          !.stats.totalEntries =
                                              Cardinality(Keys(out.entries))]),
                  val |-> [success |-> TRUE, imported |-> out.imported]]

\* importData(importedData, strategy = 'merge')
JSONStorage_importData(f, importedData, strategy) ==
    LET data == load(f)
    IN  IF data = None THEN [file |-> f, val |-> [success |-> FALSE, imported |-> 0]]
        ELSE LET d == The(data)
                 s == IF strategy = None THEN "merge" ELSE The(strategy)
                 incoming == IF importedData.entries = None THEN << >>
                             ELSE The(importedData.entries)
                 out == ImportLoop(d.entries, incoming, s, 0)
             IN  [file |-> save([d EXCEPT !.entries = out.entries,
                                          !.stats.totalEntries =
                                              Cardinality(Keys(out.entries))]),
                  val |-> [success |-> TRUE, imported |-> out.imported]]

\* createStorage(cachePath, backend = BACKENDS.JSON): the class of the
\* instance returned, or the error thrown
createStorage(backend) ==
    IF backend = Some("sqlite") THEN [val |-> Some("SQLiteStorage"), threw |-> None]
    ELSE IF backend = Some("redis")
    THEN [val |-> None, threw |-> Some("Redis backend not yet implemented")]
    ELSE [val |-> Some("JSONStorage"), threw |-> None]

\* detectBackend(cachePath), of a directory that holds cache.db and
\* index.json or not
detectBackend(cacheDb, indexJson) == IF cacheDb THEN "sqlite" ELSE "json"

(* ------------------------------------------------------------------ *)
(* class SQLiteStorage.  Each method is an operator on d, which is None *)
(* while this.db is null and Some(rows) once the database is open; the  *)
(* rows of the table entries are [hash, entry] pairs.  It yields d      *)
(* afterwards and the value returned.                                   *)
(* ------------------------------------------------------------------ *)
\* the methods the class defines; a call of any other throws a TypeError
SQLiteStorage_methods ==
    { "init", "get", "set", "delete", "list", "getStats", "clear", "exportData", "close" }

\* init(), where require('better-sqlite3') succeeds; CREATE TABLE IF NOT
\* EXISTS keeps the rows there are
SQLiteStorage_init(d) ==
    IF ~isPro
    THEN [db |-> d, val |-> [success |-> FALSE, error |-> "SQLite backend is a PRO feature"]]
    ELSE [db |-> IF d = None THEN Some(<< >>) ELSE d, val |-> [success |-> TRUE]]

SQLiteStorage_get(d, hash) ==
    IF d = None THEN None
    ELSE IF Has(The(d), hash) THEN Some(Lookup(The(d), hash))
    ELSE None

\* INSERT OR REPLACE: the row with this hash, if any, is deleted and a new
\* row is inserted
SQLiteStorage_set(d, hash, entry) ==
    IF d = None
    THEN [db |-> d, val |-> [success |-> FALSE, error |-> "Database not initialized"]]
    ELSE [db |-> Some(Append(Remove(The(d), hash), [hash |-> hash, entry |-> entry])),
          val |-> [success |-> TRUE, isNew |-> ~Has(The(d), hash)]]

SQLiteStorage_delete(d, hash) ==
    IF d = None THEN [db |-> d, val |-> [success |-> FALSE]]
    ELSE [db |-> Some(Remove(The(d), hash)), val |-> [success |-> Has(The(d), hash)]]

\* getStats(): COUNT(*), SUM(hits) and SUM(LENGTH(response)) of the rows
\* (cacheSize, the size of the file, is not modelled)
SQLiteStorage_getStats(d) ==
    IF d = None THEN None
    ELSE LET rows == The(d)
             RECURSIVE SumHits(_)
             SumHits(i) == IF i = 0 THEN 0 ELSE rows[i].entry.hits + SumHits(i - 1)
             RECURSIVE SumLength(_)
             SumLength(i) ==
                 IF i = 0 THEN 0 ELSE rows[i].entry.response.length + SumLength(i - 1)
         IN  Some([totalEntries |-> Len(rows),
                   totalHits |-> SumHits(Len(rows)),
                   totalSaved |-> SumLength(Len(rows))])

\* clear(options): created < cutoff.toISOString() compares two ISO texts,
\* which orders them as the instants they name
SQLiteStorage_clear(d, olderThan, clock) ==
    IF d = None THEN [db |-> d, val |-> [success |-> FALSE, removed |-> 0]]
    ELSE IF Truthy(olderThan)
    THEN LET days == parseInt(The(olderThan))
             Old(e) == /\ days # None
                       /\ DateParse(e.entry.created) < clock - The(days) * DayMs
             kept == SelectSeq(The(d), LAMBDA e : ~Old(e))
         IN  [db |-> Some(kept),
              val |-> [success |-> TRUE, removed |-> Len(The(d)) - Len(kept)]]
    ELSE [db |-> Some(<< >>), val |-> [success |-> TRUE, removed |-> Len(The(d))]]

(* ------------------------------------------------------------------ *)
(* core/similarity.  A number the code holds as a float is held here as *)
(* an integer: a natural logarithm in units of 1/10000, a component of  *)
(* a vector as a numerator over the denominator of its vector, and a    *)
(* similarity in units of 1/10000, rounded down.                        *)
(* ------------------------------------------------------------------ *)
\* tokenize(text): the runs of word characters (\w) of the text in lower
\* case that are longer than 2 characters; every other character separates
tokenize(text) ==
    LET Upper == "ABCDEFGHIJKLMNOPQRSTUVWXYZ"
        Word == "abcdefghijklmnopqrstuvwxyz0123456789_"
        toLowerCase(c) == IF IndexIn(c, Upper) > 0 THEN CharAt(Word, IndexIn(c, Upper)) ELSE c
        Kept(word, out) == IF Len(word) > 2 THEN Append(out, word) ELSE out
        RECURSIVE Scan(_, _, _)
        Scan(i, word, out) ==
            IF i > Len(text) THEN Kept(word, out)
            ELSE LET c == toLowerCase(CharAt(text, i))
                 IN  IF IndexIn(c, Word) > 0 THEN Scan(i + 1, word \o c, out)
                     ELSE Scan(i + 1, "", Kept(word, out))
    IN  Scan(1, "", << >>)

\* termFrequency(tokens): tf[token] = num[token] / den
termFrequency(tokens) ==
    [num |-> [t \in { tokens[i] : i \in 1..Len(tokens) } |->
                 Cardinality({ i \in 1..Len(tokens) : tokens[i] = t })],
     den |-> Len(tokens)]

\* Math.log(n / k) in units of 1/10000, for the corpora of the model
MathLog(n, k) ==
    CASE n = k -> 0
      [] 3 * n = 4 * k -> 2877
      [] 2 * n = 3 * k -> 4055
      [] n = 2 * k -> 6931
      [] n = 3 * k -> 10986
      [] n = 4 * k -> 13863

\* inverseDocumentFrequency(documents): idf[token] = Math.log(numDocs / docCounts[token])
inverseDocumentFrequency(documents) ==
    LET numDocs == Len(documents)
        seen(d) == { documents[d][i] : i \in 1..Len(documents[d]) }
        docCounts(t) == Cardinality({ d \in 1..numDocs : t \in seen(d) })
    IN  [t \in UNION { seen(d) : d \in 1..numDocs } |-> MathLog(numDocs, docCounts(t))]

\* tfidfVector(tf, idf): vector[token] = tf[token] * (idf[token] || 0)
tfidfVector(tf, idf) ==
    [num |-> [t \in DOMAIN tf.num |->
                 tf.num[t] * (IF t \in DOMAIN idf THEN idf[t] ELSE 0)],
     den |-> tf.den]

\* A faulty variant of cosineSimilarity, which returns 0 only when both
\* magnitudes are 0; C33 must tell it from cosineSimilarity.
cosineSimilarity_bothZero(v1, v2) ==
    LET allKeys == DOMAIN v1.num \cup DOMAIN v2.num
        val1(k) == IF k \in DOMAIN v1.num THEN v1.num[k] ELSE 0
        val2(k) == IF k \in DOMAIN v2.num THEN v2.num[k] ELSE 0
        RECURSIVE Sum(_, _)
        Sum(keys, which) ==
            IF keys = { } THEN 0
            ELSE LET k == CHOOSE x \in keys : TRUE
                 IN  (CASE which = 0 -> val1(k) * val2(k)
                        [] which = 1 -> val1(k) * val1(k)
                        [] which = 2 -> val2(k) * val2(k))
                     + Sum(keys \ { k }, which)
        dotProduct == Sum(allKeys, 0)
        mag1Squared == Sum(allKeys, 1)
        mag2Squared == Sum(allKeys, 2)
        Base == 10000
        Big(n) == [i \in 1..8 |-> IF i = 1 THEN n % Base
                                   ELSE IF i = 2 THEN (n \div Base) % Base
                                   ELSE IF i = 3 THEN n \div (Base * Base)
                                   ELSE 0]
        RECURSIVE Column(_, _, _, _)
        Column(a, b, k, i) ==
            IF i > k THEN 0 ELSE a[i] * b[k + 1 - i] + Column(a, b, k, i + 1)
        RECURSIVE Carry(_, _, _)
        Carry(cols, i, carry) ==
            IF i > 8 THEN << >>
            ELSE << (cols[i] + carry) % Base >>
                     \o Carry(cols, i + 1, (cols[i] + carry) \div Base)
        Mul(a, b) == Carry([k \in 1..8 |-> Column(a, b, k, 1)], 1, 0)
        RECURSIVE LeqFrom(_, _, _)
        LeqFrom(a, b, i) ==
            IF i = 0 THEN TRUE
            ELSE IF a[i] # b[i] THEN a[i] < b[i]
            ELSE LeqFrom(a, b, i - 1)
        mags == Mul(Big(mag1Squared), Big(mag2Squared))
        dots == Mul(Big(Base * Base), Mul(Big(dotProduct), Big(dotProduct)))
        Below(x) == LeqFrom(Mul(Big(x * x), mags), dots, 8)
        RECURSIVE Search(_, _)
        Search(x, bit) ==
            IF bit < 0 THEN x
            ELSE IF Below(x + Pow2(bit)) THEN Search(x + Pow2(bit), bit - 1)
            ELSE Search(x, bit - 1)
    IN  IF mag1Squared = 0 /\ mag2Squared = 0 THEN 0
        ELSE Search(0, 13)

\* cosineSimilarity(v1, v2): 0 when a magnitude is 0; else the largest x in
\* 0..10000 with (x / 10000)^2 <= dotProduct^2 / (mag1^2 * mag2^2), found
\* bit by bit.  The denominators of the two vectors cancel.  The products
\* exceed 32 bits, so they are formed on sequences of 8 digits of base 10000,
\* the lowest first.
cosineSimilarity(v1, v2) ==
    LET allKeys == DOMAIN v1.num \cup DOMAIN v2.num
        val1(k) == IF k \in DOMAIN v1.num THEN v1.num[k] ELSE 0
        val2(k) == IF k \in DOMAIN v2.num THEN v2.num[k] ELSE 0
        RECURSIVE Sum(_, _)
        Sum(keys, which) ==
            IF keys = { } THEN 0
            ELSE LET k == CHOOSE x \in keys : TRUE
                 IN  (CASE which = 0 -> val1(k) * val2(k)
                        [] which = 1 -> val1(k) * val1(k)
                        [] which = 2 -> val2(k) * val2(k))
                     + Sum(keys \ { k }, which)
        dotProduct == Sum(allKeys, 0)
        mag1Squared == Sum(allKeys, 1)
        mag2Squared == Sum(allKeys, 2)
        Base == 10000
        Big(n) == [i \in 1..8 |-> IF i = 1 THEN n % Base
                                   ELSE IF i = 2 THEN (n \div Base) % Base
                                   ELSE IF i = 3 THEN n \div (Base * Base)
                                   ELSE 0]
        RECURSIVE Column(_, _, _, _)
        Column(a, b, k, i) ==
            IF i > k THEN 0 ELSE a[i] * b[k + 1 - i] + Column(a, b, k, i + 1)
        RECURSIVE Carry(_, _, _)
        Carry(cols, i, carry) ==
            IF i > 8 THEN << >>
            ELSE << (cols[i] + carry) % Base >>
                     \o Carry(cols, i + 1, (cols[i] + carry) \div Base)
        Mul(a, b) == Carry([k \in 1..8 |-> Column(a, b, k, 1)], 1, 0)
        RECURSIVE LeqFrom(_, _, _)
        LeqFrom(a, b, i) ==
            IF i = 0 THEN TRUE
            ELSE IF a[i] # b[i] THEN a[i] < b[i]
            ELSE LeqFrom(a, b, i - 1)
        mags == Mul(Big(mag1Squared), Big(mag2Squared))
        dots == Mul(Big(Base * Base), Mul(Big(dotProduct), Big(dotProduct)))
        Below(x) == LeqFrom(Mul(Big(x * x), mags), dots, 8)
        RECURSIVE Search(_, _)
        Search(x, bit) ==
            IF bit < 0 THEN x
            ELSE IF Below(x + Pow2(bit)) THEN Search(x + Pow2(bit), bit - 1)
            ELSE Search(x, bit - 1)
    IN  IF mag1Squared = 0 \/ mag2Squared = 0 THEN 0
        ELSE Search(0, 13)

\* A faulty variant of the sort, which puts the least similar first; C29 must
\* tell it from the sort.
RECURSIVE SortBySimilarity_ascending(_)
SortBySimilarity_ascending(results) ==
    IF results = << >> THEN << >>
    ELSE LET last == results[Len(results)]
             sorted == SortBySimilarity_ascending(SubSeq(results, 1, Len(results) - 1))
             ahead == Cardinality({ i \in 1..Len(sorted) :
                                      sorted[i].similarity <= last.similarity })
         IN  SubSeq(sorted, 1, ahead) \o << last >> \o SubSeq(sorted, ahead + 1, Len(sorted))

\* results.sort((a, b) => b.similarity - a.similarity): a stable sort
RECURSIVE SortBySimilarity(_)
SortBySimilarity(results) ==
    IF results = << >> THEN << >>
    ELSE LET last == results[Len(results)]
             sorted == SortBySimilarity(SubSeq(results, 1, Len(results) - 1))
             ahead == Cardinality({ i \in 1..Len(sorted) :
                                      sorted[i].similarity >= last.similarity })
         IN  SubSeq(sorted, 1, ahead) \o << last >> \o SubSeq(sorted, ahead + 1, Len(sorted))

\* A faulty variant of findSimilar, which retains only the entries above the
\* threshold; C31 must tell it from findSimilar.
findSimilar_aboveOnly(query, threshold, limit) ==
    IF ~isPro THEN [results |-> << >>, proRequired |-> TRUE]
    ELSE LET entries == JSONStorage_list(indexFile)
             queryTokens == tokenize(query)
             documents == [i \in 1..Len(entries) |-> tokenize(entries[i].entry.prompt)]
                             \o << queryTokens >>
             idf == inverseDocumentFrequency(documents)
             queryVector == tfidfVector(termFrequency(queryTokens), idf)
             similarity ==
                 [i \in 1..Len(entries) |->
                     cosineSimilarity(queryVector,
                                      tfidfVector(termFrequency(documents[i]), idf))]
             retained == SelectSeq([i \in 1..Len(entries) |-> i],
                                   LAMBDA i : similarity[i] >
                                                (IF threshold = None THEN 3000
                                                 ELSE The(threshold)))
             results == SortBySimilarity(
                            [j \in 1..Len(retained) |->
                                [hash |-> entries[retained[j]].hash,
                                 prompt |-> entries[retained[j]].entry.prompt,
                                 response |-> entries[retained[j]].entry.response,
                                 model |-> entries[retained[j]].entry.model,
                                 hits |-> entries[retained[j]].entry.hits,
                                 created |-> entries[retained[j]].entry.created,
                                 similarity |-> (similarity[retained[j]] + 50) \div 100]])
             count == IF limit = None THEN 10 ELSE The(limit)
         IN  IF Len(entries) = 0 THEN [results |-> << >>]
             ELSE [results |-> SubSeq(results, 1, IF count < Len(results) THEN count
                                                  ELSE Len(results)),
                   total |-> Len(results)]

\* findSimilar(query, storage, options) on a JSONStorage; threshold is in
\* units of 1/10000 (default 0.3) and similarity, Math.round(similarity * 100)
\* / 100, in units of 1/100
findSimilar(query, threshold, limit) ==
    IF ~isPro THEN [results |-> << >>, proRequired |-> TRUE]
    ELSE LET entries == JSONStorage_list(indexFile)
             queryTokens == tokenize(query)
             documents == [i \in 1..Len(entries) |-> tokenize(entries[i].entry.prompt)]
                             \o << queryTokens >>
             idf == inverseDocumentFrequency(documents)
             queryVector == tfidfVector(termFrequency(queryTokens), idf)
             similarity ==
                 [i \in 1..Len(entries) |->
                     cosineSimilarity(queryVector,
                                      tfidfVector(termFrequency(documents[i]), idf))]
             retained == SelectSeq([i \in 1..Len(entries) |-> i],
                                   LAMBDA i : similarity[i] >=
                                                (IF threshold = None THEN 3000
                                                 ELSE The(threshold)))
             results == SortBySimilarity(
                            [j \in 1..Len(retained) |->
                                [hash |-> entries[retained[j]].hash,
                                 prompt |-> entries[retained[j]].entry.prompt,
                                 response |-> entries[retained[j]].entry.response,
                                 model |-> entries[retained[j]].entry.model,
                                 hits |-> entries[retained[j]].entry.hits,
                                 created |-> entries[retained[j]].entry.created,
                                 similarity |-> (similarity[retained[j]] + 50) \div 100]])
             count == IF limit = None THEN 10 ELSE The(limit)
         IN  IF Len(entries) = 0 THEN [results |-> << >>]
             ELSE [results |-> SubSeq(results, 1, IF count < Len(results) THEN count
                                                  ELSE Len(results)),
                   total |-> Len(results)]

(* ------------------------------------------------------------------ *)
(* core/cache: the facade.  Each function is an operator on the state   *)
(* and yields [dir, file, val, threw]: the directory and index.json     *)
(* afterwards, the value returned, and the exception thrown if any.     *)
(* ------------------------------------------------------------------ *)
Returns(f, v) == [dir |-> dirExists, file |-> f, val |-> v, threw |-> None]
Throws(f, e) == [dir |-> dirExists, file |-> f, val |-> None, threw |-> Some(e)]

\* getStorage(options): null when the cache path does not exist, else a new
\* instance of the class of the backend detected; cache.db exists once a
\* SQLiteStorage has opened it.  The instance is not given init(): a
\* SQLiteStorage got here has this.db = null, whatever cache.db holds.
getStorage ==
    IF ~dirExists THEN None
    ELSE createStorage(Some(detectBackend(db # None, indexFile.kind # "absent"))).val

\* parseTTL(ttl): /^(\d+)(d|h|m|s)$/
TTLUnits == [d |-> 86400000, h |-> 3600000, m |-> 60000, s |-> 1000]

\* A faulty variant of parseTTL, which reads digits without a unit as seconds;
\* C27 must tell it from parseTTL.
parseTTL_secondsByDefault(ttl) ==
    LET n == Len(ttl)
        unit == CharAt(ttl, n)
    IN  IF n >= 2 /\ LeadingDigits(ttl, 1) = n - 1 /\ unit \in { "d", "h", "m", "s" }
        THEN Some(DigitsValue(ttl, n - 1) * TTLUnits[unit])
        ELSE IF n >= 1 /\ LeadingDigits(ttl, 1) = n
        THEN Some(DigitsValue(ttl, n) * 1000)
        ELSE None

parseTTL(ttl) ==
    LET n == Len(ttl)
        unit == CharAt(ttl, n)
    IN  IF n >= 2 /\ LeadingDigits(ttl, 1) = n - 1 /\ unit \in { "d", "h", "m", "s" }
        THEN Some(DigitsValue(ttl, n - 1) * TTLUnits[unit])
        ELSE None

NoOptions == [tokens |-> None, ttl |-> None, tags |-> None]

\* init(options) with the JSON backend
init ==
    IF dirExists
    THEN Returns(indexFile, [success |-> FALSE, message |-> "Cache already exists"])
    ELSE LET result == JSONStorage_init(indexFile, now)
         IN  [dir |-> TRUE, file |-> result.file,
              val |-> [success |-> TRUE, backend |-> "json"], threw |-> None]

\* set(prompt, response, model = 'default', options = {})
set(prompt, response, model, options) ==
    IF getStorage = None
    THEN Returns(indexFile, [success |-> FALSE,
                             message |-> "Cache not initialized. Run: llmcache init"])
    ELSE LET stats == IF getStorage = Some("SQLiteStorage")
                      THEN SQLiteStorage_getStats(None)
                      ELSE JSONStorage_getStats(indexFile)
         IN  IF stats = None
             THEN Throws(indexFile, "TypeError")   \* stats.totalEntries of null
             ELSE LET entryCheck == canAddEntry(The(stats).totalEntries)
                      sizeCheck == checkResponseSize(response.bytes)
                      m == IF model = None THEN "default" ELSE The(model)
                      hash == hashPrompt(prompt, Some(m))
                      tokens == IF options.tokens # None /\ The(options.tokens) # 0
                                THEN The(options.tokens)
                                ELSE (response.length + 3) \div 4  \* Math.ceil(length / 4)
                      ttlMs == IF Truthy(options.ttl) /\ isPro
                               THEN parseTTL(The(options.ttl))
                               ELSE None
                      entry == [prompt |-> prompt,
                                response |-> response,
                                model |-> m,
                                created |-> toISOString(now),
                                hits |-> 0,
                                tokens |-> tokens,
                                expires |-> IF ttlMs # None /\ The(ttlMs) # 0
                                            THEN Some(toISOString(now + The(ttlMs)))
                                            ELSE None,
                                tags |-> IF options.tags # None /\ isPro
                                         THEN options.tags
                                         ELSE None]
                      result == JSONStorage_set(indexFile, hash, entry)
                  IN  IF ~entryCheck.allowed
                      THEN Returns(indexFile, [success |-> FALSE,
                                               message |-> entryCheck.reason,
                                               limitExceeded |-> TRUE])
                      ELSE IF ~sizeCheck.allowed
                      THEN Returns(indexFile, [success |-> FALSE,
                                               message |-> sizeCheck.reason,
                                               limitExceeded |-> TRUE])
                      ELSE IF result.val.success
                      THEN Returns(result.file, [success |-> TRUE,
                                                 hash |-> hash,
                                                 isNew |-> result.val.isNew,
                                                 tokens |-> tokens])
                      ELSE Returns(result.file, result.val)

\* A faulty variant of get, which returns the incremented hits without
\* storing them; C1 must tell it from get.
get_hitsNotSaved(prompt, model) ==
    LET found == JSONStorage_get(indexFile, hashPrompt(prompt, model))
    IN  IF getStorage = None \/ found = None THEN Returns(indexFile, None)
        ELSE Returns(indexFile, Some([response |-> The(found).response,
                                      model |-> The(found).model,
                                      hits |-> The(found).hits + 1,
                                      created |-> The(found).created,
                                      tokens |-> The(found).tokens]))

\* A faulty variant of get, which counts a miss in totalHits; C9 must tell it
\* from get.
get_countsMisses(prompt, model) ==
    LET stats == JSONStorage_getStats(indexFile)
    IN  IF getStorage = None \/ stats = None THEN Returns(indexFile, None)
        ELSE Returns(JSONStorage_updateStats(indexFile, The(stats).totalHits + 1,
                                             The(stats).totalSaved), None)

\* A faulty variant of get, which also treats as expired an entry read at the
\* very instant it expires; C11 must tell it from get.
get_expiresAtDeadline(prompt, model) ==
    LET hash == hashPrompt(prompt, model)
        found == IF getStorage = Some("SQLiteStorage")
                 THEN SQLiteStorage_get(None, hash)
                 ELSE JSONStorage_get(indexFile, hash)
    IN  IF getStorage = None THEN Returns(indexFile, None)
        ELSE IF found = None THEN Returns(indexFile, None)
        ELSE IF The(found).expires # None /\ DateParse(The(The(found).expires)) <= now
        THEN Returns(JSONStorage_delete(indexFile, hash).file, None)
        ELSE LET entry == [The(found) EXCEPT !.hits = @ + 1]
                 f1 == JSONStorage_set(indexFile, hash, entry).file
                 stats == The(JSONStorage_getStats(f1))
                 f2 == JSONStorage_updateStats(f1, stats.totalHits + 1,
                                               stats.totalSaved + entry.response.bytes)
             IN  Returns(f2, Some([response |-> entry.response,
                                   model |-> entry.model,
                                   hits |-> entry.hits,
                                   created |-> entry.created,
                                   tokens |-> entry.tokens]))

\* A faulty variant of get, which adds the length of the response in
\* characters to totalSaved instead of its length in bytes; C25 must tell it
\* from get.
get_savesLength(prompt, model) ==
    LET hash == hashPrompt(prompt, model)
        found == IF getStorage = Some("SQLiteStorage")
                 THEN SQLiteStorage_get(None, hash)
                 ELSE JSONStorage_get(indexFile, hash)
    IN  IF getStorage = None THEN Returns(indexFile, None)
        ELSE IF found = None THEN Returns(indexFile, None)
        ELSE IF The(found).expires # None /\ DateParse(The(The(found).expires)) < now
        THEN Returns(JSONStorage_delete(indexFile, hash).file, None)
        ELSE LET entry == [The(found) EXCEPT !.hits = @ + 1]
                 f1 == JSONStorage_set(indexFile, hash, entry).file
                 stats == The(JSONStorage_getStats(f1))
                 f2 == JSONStorage_updateStats(f1, stats.totalHits + 1,
                                               stats.totalSaved + entry.response.length)
             IN  Returns(f2, Some([response |-> entry.response,
                                   model |-> entry.model,
                                   hits |-> entry.hits,
                                   created |-> entry.created,
                                   tokens |-> entry.tokens]))

\* A faulty variant of get, which renews created when it counts the hit;
\* C26 must tell it from get.
get_renewsCreated(prompt, model) ==
    LET hash == hashPrompt(prompt, model)
        found == IF getStorage = Some("SQLiteStorage")
                 THEN SQLiteStorage_get(None, hash)
                 ELSE JSONStorage_get(indexFile, hash)
    IN  IF getStorage = None THEN Returns(indexFile, None)
        ELSE IF found = None THEN Returns(indexFile, None)
        ELSE IF The(found).expires # None /\ DateParse(The(The(found).expires)) < now
        THEN Returns(JSONStorage_delete(indexFile, hash).file, None)
        ELSE LET entry == [The(found) EXCEPT !.hits = @ + 1, !.created = toISOString(now)]
                 f1 == JSONStorage_set(indexFile, hash, entry).file
                 stats == The(JSONStorage_getStats(f1))
                 f2 == JSONStorage_updateStats(f1, stats.totalHits + 1,
                                               stats.totalSaved + entry.response.bytes)
             IN  Returns(f2, Some([response |-> entry.response,
                                   model |-> entry.model,
                                   hits |-> entry.hits,
                                   created |-> entry.created,
                                   tokens |-> entry.tokens]))

\* get(prompt, model = 'default', options = {})
get(prompt, model) ==
    LET hash == hashPrompt(prompt, model)
        found == IF getStorage = Some("SQLiteStorage")
                 THEN SQLiteStorage_get(None, hash)
                 ELSE JSONStorage_get(indexFile, hash)
    IN  IF getStorage = None THEN Returns(indexFile, None)
        ELSE IF found = None THEN Returns(indexFile, None)
        ELSE IF The(found).expires # None /\ DateParse(The(The(found).expires)) < now
        THEN Returns(JSONStorage_delete(indexFile, hash).file, None)
        ELSE LET entry == [The(found) EXCEPT !.hits = @ + 1]
                 f1 == JSONStorage_set(indexFile, hash, entry).file
                 stats == The(JSONStorage_getStats(f1))
                 f2 == JSONStorage_updateStats(f1, stats.totalHits + 1,
                                               stats.totalSaved + entry.response.bytes)
             IN  Returns(f2, Some([response |-> entry.response,
                                   model |-> entry.model,
                                   hits |-> entry.hits,
                                   created |-> entry.created,
                                   tokens |-> entry.tokens]))

\* clear(options)
clear(olderThan) ==
    IF getStorage = None
    THEN Returns(indexFile, [success |-> FALSE, message |-> "Cache not initialized"])
    ELSE LET result == JSONStorage_clear(indexFile, olderThan, now)
         IN  Returns(result.file, result.val)

\* importCache(data, options)
importCache(data, strategy) ==
    IF getStorage = None
    THEN Returns(indexFile, [success |-> FALSE, message |-> "Cache not initialized"])
    ELSE LET result == JSONStorage_importData(indexFile, data, strategy)
         IN  Returns(result.file, result.val)

\* e.prompt.substring(0, 50) + (e.prompt.length > 50 ? '...' : '')
Shorten(prompt) == IF Len(prompt) > 50 THEN SubSeq(prompt, 1, 50) \o "..." ELSE prompt

\* list(options)
list ==
    IF getStorage = None THEN Returns(indexFile, << >>)
    ELSE LET entries == JSONStorage_list(indexFile)
         IN  Returns(indexFile,
                     [i \in 1..Len(entries) |->
                         [hash |-> entries[i].hash,
                          model |-> entries[i].entry.model,
                          hits |-> entries[i].entry.hits,
                          prompt |-> Shorten(entries[i].entry.prompt),
                          created |-> entries[i].entry.created,
                          tokens |-> entries[i].entry.tokens,
                          tags |-> entries[i].entry.tags]])

\* stats(options) (cacheSize, the size of the file, is not modelled); the two
\* reduce calls yield the earliest and the latest created
stats ==
    IF getStorage = None THEN Returns(indexFile, None)
    ELSE LET s == JSONStorage_getStats(indexFile)
             entries == JSONStorage_list(indexFile)
             createds == { entries[i].entry.created : i \in 1..Len(entries) }
         IN  IF s = None
             THEN Throws(indexFile, "TypeError")   \* s.totalEntries of null
             ELSE Returns(indexFile,
                          Some([entries |-> The(s).totalEntries,
                                totalHits |-> The(s).totalHits,
                                tokensSaved |-> RoundDiv(The(s).totalSaved, 4),
                                costSaved |-> The(s).costSaved,
                                oldestEntry |->
                                    IF Len(entries) > 0
                                    THEN Some(CHOOSE c \in createds : \A o \in createds :
                                                  DateParse(c) <= DateParse(o))
                                    ELSE None,
                                newestEntry |->
                                    IF Len(entries) > 0
                                    THEN Some(CHOOSE c \in createds : \A o \in createds :
                                                  DateParse(c) >= DateParse(o))
                                    ELSE None]))

\* search(query, options): the entries whose prompt, in lower case, includes
\* the query in lower case
search(query) ==
    IF getStorage = None THEN Returns(indexFile, << >>)
    ELSE LET LowerCode(c) == IF Ord(c) >= 65 /\ Ord(c) <= 90 THEN Ord(c) + 32 ELSE Ord(c)
             toLowerCase(t) == [i \in 1..Len(t) |-> LowerCode(CharAt(t, i))]
             includes(t, q) == \E i \in 0..(Len(t) - Len(q)) :
                                  SubSeq(t, i + 1, i + Len(q)) = q
             found == SelectSeq(JSONStorage_list(indexFile),
                                LAMBDA e : includes(toLowerCase(e.entry.prompt),
                                                    toLowerCase(query)))
         IN  Returns(indexFile,
                     [i \in 1..Len(found) |->
                         [hash |-> found[i].hash,
                          model |-> found[i].entry.model,
                          hits |-> found[i].entry.hits,
                          prompt |-> Shorten(found[i].entry.prompt),
                          created |-> found[i].entry.created]])

\* exportCache(options)
exportCache ==
    IF getStorage = None THEN Returns(indexFile, None)
    ELSE Returns(indexFile, JSONStorage_exportData(indexFile))

(* ------------------------------------------------------------------ *)
(* The values the model calls with.                                     *)
(* ------------------------------------------------------------------ *)
StartMs == 12 * 3600000
TickMs == 2 * DayMs

\* the (prompt, model) pairs the facade is called with: the last two spell
\* "default:q:p"
Pairs == { << "p", None >>, << "q:p", None >>, << "p", Some("default:q") >> }

R1 == [text |-> "r1", length |-> 2, bytes |-> 2]
R2 == [text |-> "r2", length |-> 5, bytes |-> 7]

\* responses at the free size limit: the last has fewer characters than the
\* limit and more bytes
AtLimit == [text |-> "atLimit", length |-> 10240, bytes |-> 10240]
OverLimit == [text |-> "overLimit", length |-> 10241, bytes |-> 10241]
Wide == [text |-> "wide", length |-> 5121, bytes |-> 10242]
LimitResponses == { R1, AtLimit, OverLimit, Wide }
LimitPairs == { << "a", None >>, << "b", None >> }

\* the (response, options) pairs the facade set is called with
SetInputs == { << R1, NoOptions >>, << R2, NoOptions >>,
               << R1, [NoOptions EXCEPT !.ttl = Some("1d")] >> }

\* the texts given as --older-than
OlderThans == { None } \cup { Some(t) : t \in { "0d", "1", "2d" } }

\* the entries the backend is called with directly
StorageHashes == { hashPrompt(k[1], k[2]) : k \in Pairs }
StorageEntries ==
    { [prompt |-> "p", response |-> r, model |-> "default",
       created |-> toISOString(now), hits |-> 0, tokens |-> 1,
       expires |-> x, tags |-> None] :
          r \in { R1 }, x \in { None, Some(toISOString(now + DayMs)) } }

\* exported documents given to importData
ImportedEntry(prompt) ==
    [hash |-> hashPrompt(prompt, None),
     entry |-> [prompt |-> prompt, response |-> R2, model |-> "default",
                created |-> toISOString(StartMs), hits |-> 0, tokens |-> 2,
                expires |-> None, tags |-> None]]
ImportDocs ==
    { [entries |-> None],
      [entries |-> Some(<< ImportedEntry("q:p"), ImportedEntry("p") >>)] }
Strategies == { None, Some("merge"), Some("replace"), Some("skip-existing") }

\* the documents imported where the strategies are compared: the last has a
\* key no set of the model writes, and lacks one that they write
Snapshots ==
    ImportDocs \cup { [entries |-> Some(<< ImportedEntry("P"), ImportedEntry("p") >>)] }

\* the store after FillerCount sets on an empty cache
FilledFile ==
    LET FillerEntry(i) ==
            [prompt |-> FillerPrompt(i), response |-> R1, model |-> "default",
             created |-> toISOString(StartMs), hits |-> 0, tokens |-> 1,
             expires |-> None, tags |-> None]
        RECURSIVE Populate(_, _)
        Populate(f, i) ==
            IF i > FillerCount THEN f
            ELSE Populate(JSONStorage_set(f, hashPrompt(FillerPrompt(i), None),
                                          FillerEntry(i)).file,
                          i + 1)
    IN  Populate(JSONStorage_init(AbsentFile, StartMs).file, 1)

(* ------------------------------------------------------------------ *)
(* Actions: one call of a function of the facade or of a method of the  *)
(* backend, or one tick of the clock.                                   *)
(* ------------------------------------------------------------------ *)
NoCall == [op |-> "none", val |-> None, threw |-> None]

Call(op, out) ==
    /\ dirExists' = out.dir
    /\ indexFile' = out.file
    /\ ret' = [op |-> op, val |-> out.val, threw |-> out.threw]
    /\ UNCHANGED << licenseFile, now, db, inFlight >>

StorageCall(op, result) ==
    /\ indexFile' = result.file
    /\ ret' = [op |-> op, val |-> result.val, threw |-> None]
    /\ UNCHANGED << dirExists, licenseFile, now, sinceSet, db, inFlight >>

TotalHits == IF indexFile.kind = "json" THEN indexFile.data.stats.totalHits ELSE 0

InitCall == Call("init", init) /\ UNCHANGED sinceSet

SetCall(prompt, response, model, options) ==
    Call("set", set(prompt, response, model, options))

GetCall(prompt, model) ==
    /\ TotalHits < MaxHits
    /\ Call("get", get(prompt, model))

ClearCall(olderThan) == Call("clear", clear(olderThan))

\* new JSONStorage(cachePath).init(): creates the directory too
StorageInitCall ==
    /\ dirExists' = TRUE
    /\ indexFile' = JSONStorage_init(indexFile, now).file
    /\ ret' = [op |-> "storage.init", val |-> JSONStorage_init(indexFile, now).val,
               threw |-> None]
    /\ UNCHANGED << licenseFile, now, sinceSet, db, inFlight >>

StorageSetCall(hash, entry) ==
    StorageCall("storage.set", JSONStorage_set(indexFile, hash, entry))

StorageDeleteCall(hash) ==
    StorageCall("storage.delete", JSONStorage_delete(indexFile, hash))

StorageClearCall(olderThan) ==
    StorageCall("storage.clear", JSONStorage_clear(indexFile, olderThan, now))

StorageImportCall(data, strategy) ==
    StorageCall("storage.importData", JSONStorage_importData(indexFile, data, strategy))

\* importData, with its arguments kept for the properties
ImportDataCall(data, strategy) ==
    /\ indexFile' = JSONStorage_importData(indexFile, data, strategy).file
    /\ ret' = [op |-> "importData",
               val |-> JSONStorage_importData(indexFile, data, strategy).val,
               threw |-> None,
               data |-> data,
               strategy |-> strategy]
    /\ UNCHANGED << dirExists, licenseFile, now, sinceSet, db, inFlight >>

\* exportData() of this store given to importData of a new JSONStorage, after
\* its init(), in another directory; importedData.entries of null throws
ExportImportCall(strategy) ==
    LET exported == JSONStorage_exportData(indexFile)
        fresh == JSONStorage_init(AbsentFile, now).file
        result == JSONStorage_importData(fresh, [entries |-> Some(The(exported).entries)],
                                         strategy)
    IN  /\ ret' = IF exported = None
                  THEN [op |-> "exportImport", val |-> None, threw |-> Some("TypeError"),
                        strategy |-> strategy]
                  ELSE [op |-> "exportImport",
                        val |-> [success |-> result.val.success,
                                 imported |-> result.val.imported,
                                 target |-> result.file],
                        threw |-> None,
                        strategy |-> strategy]
        /\ UNCHANGED << dirExists, indexFile, licenseFile, now, sinceSet, db, inFlight >>

\* hashPrompt applied to two inputs
HashCall(a, b) ==
    /\ ret' = [op |-> "hashPrompt",
               val |-> [first |-> [prompt |-> a[1], model |-> a[2],
                                   hash |-> hashPrompt(a[1], a[2])],
                        second |-> [prompt |-> b[1], model |-> b[2],
                                    hash |-> hashPrompt(b[1], b[2])]],
               threw |-> None]
    /\ UNCHANGED << dirExists, indexFile, licenseFile, now, sinceSet, db, inFlight >>

Tick ==
    /\ now < StartMs + MaxTicks * TickMs
    /\ now' = now + TickMs
    /\ UNCHANGED << dirExists, indexFile, licenseFile, ret, sinceSet, db, inFlight >>

(* ------------------------------------------------------------------ *)
(* History.  sinceSet holds, for each key last written by a successful  *)
(* facade set and still stored, what was set and the number of gets     *)
(* served from it since.                                                *)
(* ------------------------------------------------------------------ *)
ModelOf(model) == IF model = None THEN "default" ELSE The(model)

Forget(hash) == { g \in sinceSet : g.hash # hash }

SinceSetAfterSet(prompt, response, model) ==
    sinceSet' =
        IF ret'.threw = None /\ ret'.val.success
        THEN Forget(ret'.val.hash)
                \cup { [hash |-> ret'.val.hash, prompt |-> prompt,
                        model |-> ModelOf(model), response |-> response, gets |-> 0] }
        ELSE sinceSet

SinceSetAfterGet(prompt, model) ==
    sinceSet' =
        IF ret'.val = None THEN Forget(hashPrompt(prompt, model))
        ELSE { IF g.hash = hashPrompt(prompt, model) THEN [g EXCEPT !.gets = @ + 1] ELSE g :
                  g \in sinceSet }

SinceSetAfterClear ==
    sinceSet' = { g \in sinceSet :
                     indexFile'.kind = "json" /\ Has(indexFile'.data.entries, g.hash) }

(* ------------------------------------------------------------------ *)
(* Specifications.                                                      *)
(* ------------------------------------------------------------------ *)
Init ==
    /\ dirExists = FALSE
    /\ indexFile = AbsentFile
    /\ now = StartMs
    /\ licenseFile \in { None, activateLicense(Some("LMC-1234-5678-9012-AC17")).file }
    /\ ret = NoCall
    /\ sinceSet = { }
    /\ db = None
    /\ inFlight = [process \in 1..2 |-> None]

FacadeGet == \E k \in Pairs : GetCall(k[1], k[2]) /\ SinceSetAfterGet(k[1], k[2])

\* Spec: the JSON backend called directly, and the facade get on top of it
StorageSet == \E h \in StorageHashes, e \in StorageEntries : StorageSetCall(h, e)
StorageDelete == \E h \in StorageHashes : StorageDeleteCall(h)
StorageClear == \E o \in OlderThans : StorageClearCall(o)
StorageImport == \E d \in ImportDocs, s \in Strategies : StorageImportCall(d, s)

Next ==
    \/ StorageInitCall
    \/ StorageSet
    \/ StorageDelete
    \/ StorageClear
    \/ StorageImport
    \/ FacadeGet
    \/ Tick

\* the backend reads no license: the free tier stands for both
InitFree == Init /\ ~isPro

Spec == InitFree /\ [][Next]_vars

\* SpecFacade: the functions of the facade
FacadeSet ==
    \E k \in Pairs, i \in SetInputs :
        SetCall(k[1], i[1], k[2], i[2]) /\ SinceSetAfterSet(k[1], i[1], k[2])
FacadeClear == \E o \in { None, Some("1") } : ClearCall(o) /\ SinceSetAfterClear

NextFacade ==
    \/ InitCall
    \/ FacadeSet
    \/ FacadeGet
    \/ FacadeClear
    \/ Tick

SpecFacade == Init /\ [][NextFacade]_vars

\* SpecLimit: the facade on a store filled up to two entries below the free limit
InitLimit ==
    /\ dirExists = TRUE
    /\ indexFile = FilledFile
    /\ now = StartMs
    /\ licenseFile \in { None, activateLicense(Some("LMC-1234-5678-9012-AC17")).file }
    /\ ret = NoCall
    /\ sinceSet = { }
    /\ db = None
    /\ inFlight = [process \in 1..2 |-> None]

LimitSet ==
    \E k \in LimitPairs, r \in LimitResponses :
        SetCall(k[1], r, k[2], NoOptions) /\ SinceSetAfterSet(k[1], r, k[2])

NextLimit ==
    \/ LimitSet
    \/ \E k \in LimitPairs : GetCall(k[1], k[2]) /\ SinceSetAfterGet(k[1], k[2])

SpecLimit == InitLimit /\ [][NextLimit]_vars

\* SpecCeiling: sets and imports on the store filled up to two entries below
\* the free limit
NextCeiling ==
    \/ LimitSet
    \/ \E d \in ImportDocs :
          Call("importCache", importCache(d, None)) /\ UNCHANGED sinceSet

SpecCeiling == InitLimit /\ [][NextCeiling]_vars

\* SpecPure: hashPrompt on pairs of inputs, and the sets and gets that use it
PureHash == \E a \in HashInputs, b \in HashInputs : HashCall(a, b)
PureSet ==
    \E k \in Pairs :
        SetCall(k[1], R1, k[2], NoOptions) /\ SinceSetAfterSet(k[1], R1, k[2])

NextPure ==
    \/ PureHash
    \/ InitCall
    \/ PureSet
    \/ FacadeGet

SpecPure == Init /\ [][NextPure]_vars

\* SpecExpiry: sets with and without a ttl, gets and the clock; nothing but a
\* get of an expired entry removes an entry here
\* (the clock steps by TickMs, so a ttl of "2d" is read at the very instant
\* it expires)
ExpirySet ==
    \E k \in Pairs, ttl \in { None, Some("1d"), Some("2d") } :
        /\ SetCall(k[1], R1, k[2], [NoOptions EXCEPT !.ttl = ttl])
        /\ SinceSetAfterSet(k[1], R1, k[2])

NextExpiry ==
    \/ InitCall
    \/ ExpirySet
    \/ FacadeGet
    \/ Tick

SpecExpiry == Init /\ [][NextExpiry]_vars

\* SpecImport: the JSON backend with documents imported under every strategy,
\* and under a name that is no strategy
NextImport ==
    \/ StorageInitCall
    \/ StorageSet
    \/ StorageDelete
    \/ \E d \in Snapshots, s \in Strategies \cup { Some("overwrite") } : ImportDataCall(d, s)
    \/ \E d \in Snapshots, s \in { None, Some("overwrite") } :
          Call("importCache", importCache(d, s)) /\ UNCHANGED sinceSet
    \/ \E s \in { None, Some("merge") } : ExportImportCall(s)

SpecImport == InitFree /\ [][NextImport]_vars

\* SpecDamaged: every function of the facade and every method of the JSON
\* backend, on a cache directory that may not exist, may have been made
\* without index.json, or whose index.json may have been removed or damaged;
\* and the choice of the backend.  The history of the sets is not kept here.
EnvironmentStep(dir, f) ==
    /\ dirExists' = dir
    /\ indexFile' = f
    /\ ret' = [op |-> "environment", val |-> None, threw |-> None]
    /\ UNCHANGED << licenseFile, now, sinceSet, db, inFlight >>

NextDamaged ==
    \* the directory is made by something else ('.llmcache' also holds the
    \* license and the global cache)
    \/ ~dirExists /\ EnvironmentStep(TRUE, indexFile)
    \* index.json is removed or overwritten by something else
    \/ \E f \in { AbsentFile, CorruptFile } :
          dirExists /\ indexFile.kind = "json" /\ EnvironmentStep(dirExists, f)
    \/ InitCall
    \/ SetCall("p", R1, None, NoOptions) /\ UNCHANGED sinceSet
    \/ GetCall("p", None) /\ UNCHANGED sinceSet
    \/ Call("list", list) /\ UNCHANGED sinceSet
    \/ Call("stats", stats) /\ UNCHANGED sinceSet
    \/ ClearCall(None) /\ UNCHANGED sinceSet
    \/ \E q \in { "P", "q" } : Call("search", search(q)) /\ UNCHANGED sinceSet
    \/ Call("exportCache", exportCache) /\ UNCHANGED sinceSet
    \/ \E d \in ImportDocs :
          Call("importCache", importCache(d, None)) /\ UNCHANGED sinceSet
    \/ StorageInitCall
    \/ \E h \in StorageHashes :
          StorageCall("storage.get", [file |-> indexFile, val |-> JSONStorage_get(indexFile, h)])
    \/ \E e \in StorageEntries : StorageSetCall(hashPrompt("p", None), e)
    \/ StorageDelete
    \/ StorageCall("storage.list", [file |-> indexFile, val |-> JSONStorage_list(indexFile)])
    \/ StorageCall("storage.getStats",
                   [file |-> indexFile, val |-> JSONStorage_getStats(indexFile)])
    \/ StorageCall("storage.updateStats",
                   [file |-> JSONStorage_updateStats(indexFile, MaxHits, 7), val |-> None])
    \/ StorageClearCall(None)
    \/ StorageCall("storage.exportData",
                   [file |-> indexFile, val |-> JSONStorage_exportData(indexFile)])
    \/ \E d \in ImportDocs : StorageImportCall(d, None)
    \/ \E b \in { None, Some("json"), Some("sqlite"), Some("redis"), Some("mongo") } :
          /\ ret' = [op |-> "createStorage", val |-> createStorage(b).val,
                     threw |-> createStorage(b).threw, backend |-> b]
          /\ UNCHANGED << dirExists, indexFile, licenseFile, now, sinceSet, db, inFlight >>
    \/ \E cacheDb \in BOOLEAN, indexJson \in BOOLEAN :
          /\ ret' = [op |-> "detectBackend", val |-> detectBackend(cacheDb, indexJson),
                     threw |-> None, cacheDb |-> cacheDb, indexJson |-> indexJson]
          /\ UNCHANGED << dirExists, indexFile, licenseFile, now, sinceSet, db, inFlight >>

SpecDamaged == InitFree /\ [][NextDamaged]_vars

\* SpecList: the facade's list called with options (model, sort, limit), as
\* the HTTP server calls it, on a store whose entries differ in model, in
\* created and in hits.  JSONStorage.list() declares no parameter, so the
\* options reach nothing.
ListOptions ==
    [model : { None, Some("default"), Some("default:q") },
     sort : { None, Some("hits"), Some("created") },
     limit : { None, Some(1) }]

NextList ==
    \/ InitCall
    \/ \E k \in Pairs : SetCall(k[1], R1, k[2], NoOptions) /\ UNCHANGED sinceSet
    \/ \E k \in Pairs : GetCall(k[1], k[2]) /\ UNCHANGED sinceSet
    \/ Tick
    \/ \E o \in ListOptions :
          /\ ret' = [op |-> "list", val |-> list.val, threw |-> list.threw, options |-> o]
          /\ UNCHANGED << dirExists, indexFile, licenseFile, now, sinceSet, db, inFlight >>

SpecList == InitFree /\ [][NextList]_vars

\* SpecSql: every call is made on a JSONStorage and on a SQLiteStorage alike,
\* with a license.  ret holds what the JSON backend returned and, in sqlite,
\* what the SQL backend returned or threw.
BothCall(op, json, sqlite) ==
    /\ indexFile' = json.file
    /\ db' = IF op \in SQLiteStorage_methods THEN sqlite.db ELSE db
    /\ ret' = [op |-> op, val |-> json.val, threw |-> None,
               sqlite |-> IF op \in SQLiteStorage_methods
                          THEN [val |-> sqlite.val, threw |-> None]
                          ELSE [val |-> None, threw |-> Some("TypeError")]]
    /\ UNCHANGED << licenseFile, now, sinceSet, inFlight >>

NextSql ==
    \/ /\ BothCall("init", JSONStorage_init(indexFile, now), SQLiteStorage_init(db))
       /\ dirExists' = TRUE
    \/ \E h \in { hashPrompt("p", None), hashPrompt("q:p", None) }, e \in StorageEntries :
          /\ BothCall("set", JSONStorage_set(indexFile, h, e), SQLiteStorage_set(db, h, e))
          /\ UNCHANGED dirExists
    \/ \E h \in { hashPrompt("p", None), hashPrompt("q:p", None) } :
          /\ BothCall("get", [file |-> indexFile, val |-> JSONStorage_get(indexFile, h)],
                      [db |-> db, val |-> SQLiteStorage_get(db, h)])
          /\ UNCHANGED dirExists
    \/ \E h \in { hashPrompt("p", None), hashPrompt("q:p", None) } :
          /\ BothCall("delete", JSONStorage_delete(indexFile, h), SQLiteStorage_delete(db, h))
          /\ UNCHANGED dirExists
    \/ /\ BothCall("getStats", [file |-> indexFile, val |-> JSONStorage_getStats(indexFile)],
                    [db |-> db, val |-> SQLiteStorage_getStats(db)])
       /\ UNCHANGED dirExists
    \/ /\ BothCall("updateStats",
                    [file |-> JSONStorage_updateStats(indexFile, MaxHits, 7), val |-> None],
                    [db |-> db, val |-> None])
       /\ UNCHANGED dirExists
    \/ \E o \in OlderThans :
          /\ BothCall("clear", JSONStorage_clear(indexFile, o, now),
                      SQLiteStorage_clear(db, o, now))
          /\ UNCHANGED dirExists
    \/ \E d \in ImportDocs :
          /\ BothCall("importData", JSONStorage_importData(indexFile, d, None),
                      [db |-> db, val |-> None])
          /\ UNCHANGED dirExists

InitPro == Init /\ isPro

SpecSql == InitPro /\ [][NextSql]_vars

\* SpecTtl: parseTTL on texts that match its grammar and texts that do not,
\* and the facade set given each of them as options.ttl, with and without a
\* license.
TTLTexts ==
    { "7d", "24h", "30m", "60s", "0d", "007s",
      "7", "7x", "invalid", "d", "", "7dd", "d7", "1.5h", "-1d", "7D", "7 d" }

NextTtl ==
    \/ InitCall
    \/ \E t \in TTLTexts :
          /\ ret' = [op |-> "parseTTL", val |-> parseTTL(t), threw |-> None, ttl |-> t]
          /\ UNCHANGED << dirExists, indexFile, licenseFile, now, sinceSet, db, inFlight >>
    \/ \E t \in TTLTexts :
          \E out \in { set("p", R1, None, [NoOptions EXCEPT !.ttl = Some(t)]) } :
              /\ dirExists' = out.dir
              /\ indexFile' = out.file
              /\ ret' = [op |-> "set", val |-> out.val, threw |-> out.threw, ttl |-> t]
              /\ UNCHANGED << licenseFile, now, sinceSet, db, inFlight >>
    \/ GetCall("p", None) /\ UNCHANGED sinceSet
    \/ Tick

SpecTtl == Init /\ [][NextTtl]_vars

\* SpecSimilar: findSimilar on a JSON store of up to three entries, with and
\* without a license.
SimilarPrompts ==
    { "Hello world", "hello, WORLD! How are you?", "world peace now", "I am a b" }

NextSimilar ==
    \/ StorageInitCall
    \/ \E h \in { "h1", "h2" }, prompt \in SimilarPrompts :
          StorageSetCall(h, [prompt |-> prompt, response |-> R1, model |-> "default",
                             created |-> toISOString(now), hits |-> 0, tokens |-> 1,
                             expires |-> None, tags |-> None])
    \/ \E q \in { "Hello world", "world peace now" }, threshold \in { None, Some(0) }, limit \in { None, Some(1) } :
          /\ ret' = [op |-> "findSimilar", val |-> findSimilar(q, threshold, limit),
                     threw |-> None, query |-> q, threshold |-> threshold, limit |-> limit]
          /\ UNCHANGED << dirExists, indexFile, licenseFile, now, sinceSet, db, inFlight >>

SpecSimilar == Init /\ [][NextSimilar]_vars

\* SpecRank: findSimilar on a JSON store of up to two entries whose prompts
\* repeat tokens, and cosineSimilarity on vectors given directly.
RankVectors ==
    { [num |-> << >>, den |-> 0],
      [num |-> [t \in { "aaa" } |-> 0], den |-> 1],
      [num |-> [t \in { "aaa" } |-> 3], den |-> 1],
      [num |-> [t \in { "bbb" } |-> 4], den |-> 1] }

NextRank ==
    \/ StorageInitCall
    \/ \E h \in { "h1", "h2" },
          prompt \in { "hello cat cat dog", "world now", "to be or" } :
          StorageSetCall(h, [prompt |-> prompt, response |-> R1, model |-> "default",
                             created |-> toISOString(now), hits |-> 0, tokens |-> 1,
                             expires |-> None, tags |-> None])
    \/ \E q \in { "hello hello world", "cat" }, threshold \in { None, Some(0) } :
          /\ ret' = [op |-> "findSimilar", val |-> findSimilar(q, threshold, None),
                     threw |-> None, query |-> q, threshold |-> threshold, limit |-> None]
          /\ UNCHANGED << dirExists, indexFile, licenseFile, now, sinceSet, db, inFlight >>
    \/ \E vec1 \in RankVectors, vec2 \in RankVectors :
          /\ ret' = [op |-> "cosineSimilarity", val |-> cosineSimilarity(vec1, vec2),
                     threw |-> None, vec1 |-> vec1, vec2 |-> vec2]
          /\ UNCHANGED << dirExists, indexFile, licenseFile, now, sinceSet, db, inFlight >>

SpecRank == Init /\ [][NextRank]_vars

\* SpecLicense: the license functions called in any order while the clock
\* advances.  The keys are those of the tests, two more valid keys, and keys
\* of 4 and of 6 parts and one with the checksum in lower case.
NextLicense ==
    \/ \E key \in
          { None, Some(""), Some("invalid-key"), Some("XXX-1234-5678-9012-3456"),
            Some("LMC-1234-5678-9012-0000"), Some("LMC-1234-5678-9012-AC17"),
            Some("LMC-AAAA-BBBB-CCCC-DAE7"), Some("LMC-0000-0000-0000-3768"),
            Some("LMC-1234-5678-9012-ac17"),
            Some("LMC-1234-5678-96AF"), Some("LMC-1234-5678-9012-AC17-0000") } :
          /\ licenseFile' = activateLicense(key).file
          /\ ret' = [op |-> "activateLicense", val |-> activateLicense(key).val,
                     threw |-> None, key |-> key]
          /\ UNCHANGED << dirExists, indexFile, now, sinceSet, db, inFlight >>
    \/ /\ licenseFile' = deactivateLicense.file
       /\ ret' = [op |-> "deactivateLicense", val |-> deactivateLicense.val, threw |-> None]
       /\ UNCHANGED << dirExists, indexFile, now, sinceSet, db, inFlight >>
    \/ /\ ret' = [op |-> "isPro", val |-> isPro, threw |-> None]
       /\ UNCHANGED << dirExists, indexFile, licenseFile, now, sinceSet, db, inFlight >>
    \/ Tick

SpecLicense == Init /\ [][NextLicense]_vars

\* SpecRace: two processes call set, delete, clear and importData of a
\* JSONStorage on the same directory.  A call loads the file in one step and,
\* in a later step, saves the document it made of what it loaded and
\* returns; a call that fails has saved nothing.  Each save is atomic.  ret
\* holds, with what the call returned, the call, its process and the file it
\* had loaded.
\* the file a call leaves and the value it returns, had it loaded file f
RaceResult(call, f) ==
    LET entry == [prompt |-> "p", response |-> R1, model |-> "default",
                  created |-> toISOString(StartMs), hits |-> 0, tokens |-> 1,
                  expires |-> None, tags |-> None]
    IN  CASE call.method = "set" -> JSONStorage_set(f, call.hash, entry)
          [] call.method = "delete" -> JSONStorage_delete(f, call.hash)
          [] call.method = "clear" -> JSONStorage_clear(f, call.olderThan, now)
          [] call.method = "importData" ->
                JSONStorage_importData(f, [entries |-> Some(<< [hash |-> "h2", entry |-> entry] >>)],
                                       None)

NextRace ==
    \/ /\ StorageInitCall
       /\ \A process \in 1..2 : inFlight[process] = None
    \/ \E process \in 1..2,
          call \in { [method |-> "set", hash |-> h] : h \in { "h1", "h2" } }
                      \cup { [method |-> "delete", hash |-> "h1"] }
                      \cup { [method |-> "clear", olderThan |-> o] : o \in { None, Some("1") } }
                      \cup { [method |-> "importData"] } :
          /\ inFlight[process] = None
          /\ inFlight' = [inFlight EXCEPT ![process] = Some([call |-> call, file |-> indexFile])]
          /\ UNCHANGED << dirExists, indexFile, licenseFile, now, ret, sinceSet, db >>
    \/ \E process \in 1..2 :
          /\ inFlight[process] # None
          /\ LET call == The(inFlight[process]).call
                 loaded == The(inFlight[process]).file
                 result == RaceResult(call, loaded)
             IN  /\ indexFile' = IF result.val.success THEN result.file ELSE indexFile
                 /\ ret' = [op |-> call.method, val |-> result.val, threw |-> None,
                            call |-> call, process |-> process, loaded |-> loaded]
          /\ inFlight' = [inFlight EXCEPT ![process] = None]
          /\ UNCHANGED << dirExists, licenseFile, now, sinceSet, db >>
    \/ /\ Tick
       /\ \A process \in 1..2 : inFlight[process] = None

SpecRace == InitFree /\ [][NextRace]_vars

\* SpecBackends: the facade set and get, with a license, on a directory that
\* a JSONStorage, a SQLiteStorage or both have initialized.
NextBackends ==
    \/ StorageInitCall
    \* new SQLiteStorage(cachePath).init(), which needs the directory
    \/ /\ dirExists
       /\ db' = SQLiteStorage_init(db).db
       /\ ret' = [op |-> "sqlite.init", val |-> SQLiteStorage_init(db).val, threw |-> None]
       /\ UNCHANGED << dirExists, indexFile, licenseFile, now, sinceSet, inFlight >>
    \* the directory is made outside the program
    \/ /\ ~dirExists
       /\ dirExists' = TRUE
       /\ UNCHANGED << indexFile, licenseFile, now, ret, sinceSet, db, inFlight >>
    \/ \E k \in Pairs, r \in { R1, R2 } :
          /\ SetCall(k[1], r, k[2], NoOptions)
          /\ UNCHANGED sinceSet
    \/ \E k \in Pairs : GetCall(k[1], k[2]) /\ UNCHANGED sinceSet

SpecBackends == InitPro /\ [][NextBackends]_vars

(* ------------------------------------------------------------------ *)
(* Properties.                                                          *)
(* ------------------------------------------------------------------ *)
Stored == indexFile.kind = "json"
Entries == IF Stored THEN indexFile.data.entries ELSE << >>
Count == Cardinality(Keys(Entries))
Failed(r) == r.threw = None /\ r.val # None /\ r.val.success = FALSE
LimitExceeded(r) ==
    /\ Failed(r)
    /\ "limitExceeded" \in DOMAIN r.val
    /\ r.val.limitExceeded = TRUE
Expired(hash) ==
    /\ Has(Entries, hash)
    /\ Lookup(Entries, hash).expires # None
    /\ DateParse(The(Lookup(Entries, hash).expires)) < now

\* C1: after a successful facade set(P, R, M), as long as the key is not set
\* again, cleared, deleted or expired, each facade get(P, M) returns R, and
\* its hits is one more than the number of gets the key has served since the
\* set (so the k-th get returns hits = k).
C1_SetThenGet ==
    [][\A k \in Pairs : \A g \in sinceSet :
          (/\ ret'.op = "get"
           /\ g.prompt = k[1]
           /\ g.model = ModelOf(k[2])
           /\ g.hash = hashPrompt(k[1], k[2])
           /\ ~Expired(g.hash)
           /\ GetCall(k[1], k[2]))
          => /\ ret'.val # None
             /\ The(ret'.val).response = g.response
             /\ The(ret'.val).hits = g.gets + 1]_vars

C1_Witness ==
    /\ ret.op = "get"
    /\ ret.val # None
    /\ The(ret.val).hits = 2
    /\ \E g \in sinceSet : g.gets = 2 /\ g.response = The(ret.val).response

\* C2: JSONStorage.set on an initialized store succeeds; it returns isNew = true
\* exactly when the hash was not a key before the call; totalEntries grows by
\* one when it was not and is unchanged when it was.
C2_StorageSetIsNew ==
    [][\A h \in StorageHashes : \A e \in StorageEntries :
          (ret'.op = "storage.set" /\ Stored /\ StorageSetCall(h, e))
          => /\ ret'.val.success = TRUE
             /\ ret'.val.isNew = ~(h \in Keys(Entries))
             /\ indexFile'.data.stats.totalEntries =
                    indexFile.data.stats.totalEntries
                        + (IF h \in Keys(Entries) THEN 0 ELSE 1)]_vars

C2_Witness ==
    /\ ret.op = "storage.set"
    /\ ret.val.success
    /\ ret.val.isNew = FALSE
    /\ Count = 2

\* C3: in every state the JSON backend persists, stats.totalEntries is the
\* number of keys of the entries map, and getStats().totalEntries is the
\* length of list().
C3_TotalEntriesIsKeyCount ==
    Stored =>
        /\ indexFile.data.stats.totalEntries = Cardinality(Keys(indexFile.data.entries))
        /\ The(JSONStorage_getStats(indexFile)).totalEntries = Len(JSONStorage_list(indexFile))

C3_Witness ==
    /\ ret.op = "storage.importData"
    /\ ret.val.success
    /\ ret.val.imported = 2
    /\ Count = 2
    /\ indexFile.data.stats.totalEntries = 2
    /\ indexFile.data.stats.totalHits > 0

\* C4: without a license, a facade set made when the store holds 50 entries is
\* refused with limitExceeded and changes nothing in the store; a facade set
\* of a new key (with a response of admissible size) made when the store
\* holds 49 entries succeeds and the store holds 50 afterwards.
C4_EntryLimit ==
    [][\A k \in LimitPairs : \A r \in LimitResponses :
          (ret'.op = "set" /\ ~isPro /\ SetCall(k[1], r, k[2], NoOptions))
          => /\ Count = 50 => (LimitExceeded(ret') /\ indexFile' = indexFile)
             /\ (Count = 49 /\ ~Has(Entries, hashPrompt(k[1], k[2])) /\ r.bytes <= 10240)
                    => /\ ret'.val.success = TRUE
                       /\ Has(indexFile'.data.entries, hashPrompt(k[1], k[2]))
                       /\ Cardinality(Keys(indexFile'.data.entries)) = 50
                       /\ indexFile'.data.stats.totalEntries = 50]_vars

C4_Witness ==
    /\ ~isPro
    /\ ret.op = "set"
    /\ LimitExceeded(ret)
    /\ Count = 50
    /\ indexFile.data.stats.totalEntries = 50

C6_ClearAll ==
    [][(ret'.op = "storage.clear" /\ Stored /\ StorageClearCall(None))
          => /\ ret'.val.success = TRUE
             /\ ret'.val.removed = Count
             /\ indexFile'.data.entries = << >>
             /\ indexFile'.data.stats.totalEntries = 0
             /\ indexFile'.data.stats.totalHits = 0
             /\ indexFile'.data.stats.totalSaved = 0
             /\ \A k \in Pairs : (get(k[1], k[2]).val = None)']_vars

\* at the first instant no entry is older than any cutoff, so a clear that
\* removed entries then was one without olderThan
C6_Witness ==
    /\ ret.op = "storage.clear"
    /\ ret.val.success
    /\ ret.val.removed = 2
    /\ Count = 0
    /\ now = StartMs

\* C7: JSONStorage.clear with olderThan naming N days, on an initialized
\* store, removes exactly the entries created earlier than now - N days, keeps
\* the others as they were, returns removed = the number removed and lowers
\* totalEntries by it.
DaysNamed == [t \in { "0d", "1", "2d" } |-> CASE t = "0d" -> 0 [] t = "1" -> 1 [] t = "2d" -> 2]

C7_ClearOlderThan ==
    [][\A t \in { "0d", "1", "2d" } :
          (ret'.op = "storage.clear" /\ Stored /\ StorageClearCall(Some(t)))
          => LET cutoff == now - DaysNamed[t] * DayMs
                 kept == SelectSeq(Entries,
                                   LAMBDA e : ~(DateParse(e.entry.created) < cutoff))
             IN  /\ ret'.val.success = TRUE
                 /\ indexFile'.data.entries = kept
                 /\ ret'.val.removed = Len(Entries) - Len(kept)
                 /\ indexFile'.data.stats.totalEntries =
                        indexFile.data.stats.totalEntries - ret'.val.removed]_vars

C7_Witness ==
    /\ ret.op = "storage.clear"
    /\ ret.val.success
    /\ ret.val.removed = 1
    /\ Count = 1

\* C8: JSONStorage.delete returns success = true exactly when the hash was a
\* key; then the key is gone and totalEntries is one less; otherwise it
\* returns success = false and index.json is unchanged.
C8_StorageDelete ==
    [][\A h \in StorageHashes :
          (ret'.op = "storage.delete" /\ StorageDeleteCall(h))
          => IF Has(Entries, h)
             THEN /\ ret'.val.success = TRUE
                  /\ ~Has(indexFile'.data.entries, h)
                  /\ indexFile'.data.stats.totalEntries =
                         indexFile.data.stats.totalEntries - 1
             ELSE /\ ret'.val.success = FALSE
                  /\ indexFile' = indexFile]_vars

C8_Witness ==
    /\ ret.op = "storage.delete"
    /\ ret.val.success
    /\ Count = 1

\* C9: a facade get of a pair under whose key nothing is stored returns null,
\* throws nothing and leaves the cache directory and index.json as they were.
C9_GetMiss ==
    [][\A k \in Pairs :
          (/\ ret'.op = "get"
           /\ ~Has(Entries, hashPrompt(k[1], k[2]))
           /\ GetCall(k[1], k[2]))
          => /\ ret'.val = None
             /\ ret'.threw = None
             /\ indexFile' = indexFile
             /\ dirExists' = dirExists]_vars

\* without a license nothing expires, so this null is a miss
C9_Witness ==
    /\ ~isPro
    /\ ret.op = "get"
    /\ ret.val = None
    /\ Count = 1
    /\ TotalHits = 1

\* C10: hashPrompt gives a key of 12 characters; equal (model, prompt) give
\* equal keys, no model meaning 'default'; the same model with different
\* prompts, and the same prompt with different models, give different keys;
\* and a facade get(P, M2) leaves untouched (does not serve) every stored
\* entry of prompt P set under a model other than M2.
C10_HashPrompt ==
    [][/\ ret'.op = "hashPrompt"
             => LET x == ret'.val.first
                    y == ret'.val.second
                    a == << x.prompt, x.model >>
                    b == << y.prompt, y.model >>
                IN  HashCall(a, b)
                    => /\ Len(x.hash) = 12
                       /\ (a[1] = b[1] /\ ModelOf(a[2]) = ModelOf(b[2])) => x.hash = y.hash
                       /\ (a[1] # b[1] /\ ModelOf(a[2]) = ModelOf(b[2])) => x.hash # y.hash
                       /\ (a[1] = b[1] /\ ModelOf(a[2]) # ModelOf(b[2])) => x.hash # y.hash
       /\ \A k \in Pairs :
             (ret'.op = "get" /\ GetCall(k[1], k[2]))
             => \A i \in 1..Len(Entries) :
                   (Entries[i].entry.prompt = k[1] /\ Entries[i].entry.model # ModelOf(k[2]))
                   => /\ i <= Len(indexFile'.data.entries)
                      /\ indexFile'.data.entries[i] = Entries[i]]_vars

C10_Witness ==
    /\ ret.op = "hashPrompt"
    /\ ret.val.first.prompt = ret.val.second.prompt
    /\ ret.val.first.model = None
    /\ ret.val.second.model = Some("default:q")
    /\ ret.val.first.hash # ret.val.second.hash
    /\ \E i \in 1..Len(Entries) : Entries[i].entry.prompt = ret.val.first.prompt

\* C11: a facade get of a stored entry whose expires is earlier than now
\* returns null, removes that entry and nothing else, lowers totalEntries by
\* one and leaves totalHits and totalSaved as they were; a facade get of a
\* stored entry without expires, or whose expires is now or later, returns its
\* response and counts the hit in the entry, in totalHits and in totalSaved.
C11_ExpiredGet ==
    [][\A k \in Pairs :
          (/\ ret'.op = "get"
           /\ Has(Entries, hashPrompt(k[1], k[2]))
           /\ GetCall(k[1], k[2]))
          => LET hash == hashPrompt(k[1], k[2])
                 e == Lookup(Entries, hash)
                 before == indexFile.data.stats
                 after == indexFile'.data.stats
             IN  IF e.expires # None /\ DateParse(The(e.expires)) < now
                 THEN /\ ret'.val = None
                      /\ ret'.threw = None
                      /\ indexFile'.data.entries = Remove(Entries, hash)
                      /\ after.totalEntries = before.totalEntries - 1
                      /\ after.totalHits = before.totalHits
                      /\ after.totalSaved = before.totalSaved
                 ELSE /\ ret'.val # None
                      /\ The(ret'.val).response = e.response
                      /\ The(ret'.val).hits = e.hits + 1
                      /\ indexFile'.data.entries =
                             Put(Entries, hash, [e EXCEPT !.hits = @ + 1])
                      /\ after.totalEntries = before.totalEntries
                      /\ after.totalHits = before.totalHits + 1
                      /\ after.totalSaved = before.totalSaved + e.response.bytes]_vars

\* SpecExpiry has no clear and no delete: an entry that was served and is gone
\* was removed by the get that found it expired
C11_Witness ==
    /\ ret.op = "get"
    /\ ret.val = None
    /\ Stored
    /\ Count = 0
    /\ TotalHits > 0

\* the entries of an imported document, in the order of Object.entries
Incoming(d) == IF d.entries = None THEN << >> ELSE The(d.entries)

\* C12: importData with 'skip-existing' on an initialized store leaves every
\* entry that was stored exactly as it was, inserts every incoming key that
\* was not stored with the incoming entry, and returns imported = the number
\* of incoming keys that were not stored.
C12_SkipExisting ==
    [][(/\ ret'.op = "importData"
        /\ ret'.strategy = Some("skip-existing")
        /\ Stored
        /\ ImportDataCall(ret'.data, ret'.strategy))
          => LET incoming == Incoming(ret'.data)
                 absent == { i \in 1..Len(incoming) : ~Has(Entries, incoming[i].hash) }
                 after == indexFile'.data.entries
             IN  /\ ret'.val.success = TRUE
                 /\ ret'.val.imported = Cardinality(absent)
                 /\ SubSeq(after, 1, Len(Entries)) = Entries
                 /\ \A i \in absent :
                        Has(after, incoming[i].hash)
                            /\ Lookup(after, incoming[i].hash) = incoming[i].entry
                 /\ Len(after) = Len(Entries) + Cardinality(absent)]_vars

\* the entry of "p" is the one that was stored: an imported one has response R2
C12_Witness ==
    /\ ret.op = "importData"
    /\ ret.strategy = Some("skip-existing")
    /\ ret.val.imported = 1
    /\ Has(Entries, hashPrompt("P", None))
    /\ Has(Entries, hashPrompt("p", None))
    /\ Lookup(Entries, hashPrompt("p", None)).response = R1

\* C13: importData(S, 'replace') on an initialized store leaves every key of
\* S.entries mapped to its entry in S, whether it was stored or not, leaves
\* every stored key that is not in S as it was, and returns imported = the
\* number of keys of S.entries.
C13_Replace ==
    [][(/\ ret'.op = "importData"
        /\ ret'.strategy = Some("replace")
        /\ Stored
        /\ ImportDataCall(ret'.data, ret'.strategy))
          => LET incoming == Incoming(ret'.data)
                 after == indexFile'.data.entries
             IN  /\ ret'.val.success = TRUE
                 /\ ret'.val.imported = Cardinality(Keys(incoming))
                 /\ \A i \in 1..Len(incoming) :
                        Has(after, incoming[i].hash)
                            /\ Lookup(after, incoming[i].hash) = incoming[i].entry
                 /\ \A i \in 1..Len(Entries) :
                        ~Has(incoming, Entries[i].hash)
                            => (Has(after, Entries[i].hash)
                                  /\ Lookup(after, Entries[i].hash) = Entries[i].entry)
                 /\ Keys(after) = Keys(Entries) \cup Keys(incoming)]_vars

\* "p" was stored before "P" was added, so it was overwritten; "q:p" is not in S
C13_Witness ==
    /\ ret.op = "importData"
    /\ ret.strategy = Some("replace")
    /\ ret.val.imported = 2
    /\ Has(Entries, hashPrompt("q:p", None))
    /\ Lookup(Entries, hashPrompt("q:p", None)).response = R1
    /\ \E i, j \in 1..Len(Entries) :
          /\ i < j
          /\ Entries[i].hash = hashPrompt("p", None)
          /\ Entries[i].entry.response = R2
          /\ Entries[j].hash = hashPrompt("P", None)

\* C14: on every store and for every document, importData with 'merge' (or
\* with no strategy) and importData with 'skip-existing' leave the same
\* index.json (entries and stats) and return the same value, and neither
\* changes an entry that was stored.
C14_MergeIsSkipExisting ==
    [][(/\ ret'.op = "importData"
        /\ ret'.strategy \in { None, Some("merge"), Some("skip-existing") }
        /\ ImportDataCall(ret'.data, ret'.strategy))
          => LET other == IF ret'.strategy = Some("skip-existing")
                          THEN Some("merge")
                          ELSE Some("skip-existing")
                 result == JSONStorage_importData(indexFile, ret'.data, other)
             IN  /\ indexFile' = result.file
                 /\ ret'.val = result.val
                 /\ Stored => SubSeq(indexFile'.data.entries, 1, Len(Entries)) = Entries]_vars

C14_Witness ==
    /\ ret.op = "importData"
    /\ ret.strategy = Some("merge")
    /\ ret.val.imported = 1
    /\ Has(Entries, hashPrompt("P", None))
    /\ Has(Entries, hashPrompt("p", None))
    /\ Lookup(Entries, hashPrompt("p", None)).response = R1

\* C15: the exportData() of an initialized store, imported with 'merge' or
\* with no strategy into a new, initialized JSON backend, returns imported =
\* the number of entries of the store and leaves in the new backend the
\* entries of the store.
C15_ExportImport ==
    [][(/\ ret'.op = "exportImport"
        /\ Stored
        /\ ExportImportCall(ret'.strategy))
          => /\ ret'.threw = None
             /\ ret'.val.success = TRUE
             /\ ret'.val.imported = Count
             /\ ret'.val.target.data.entries = Entries]_vars

C15_Witness ==
    /\ ret.op = "exportImport"
    /\ ret.strategy = None
    /\ ret.threw = None
    /\ ret.val.imported = 3
    /\ Len(ret.val.target.data.entries) = 3
    /\ \E i \in 1..Len(Entries) : Entries[i].entry.expires # None

\* C16 (as claimed): importData called with a strategy that is none of
\* 'replace', 'merge' and 'skip-existing' throws and leaves index.json as it was.
C16_UnknownStrategyThrows ==
    [][(/\ ret'.op = "importData"
        /\ ret'.strategy = Some("overwrite")
        /\ Stored
        /\ Incoming(ret'.data) # << >>
        /\ ImportDataCall(ret'.data, ret'.strategy))
          => /\ ret'.threw # None
             /\ indexFile' = indexFile]_vars

\* C17 (as claimed): createStorage returns a JSONStorage when no backend or
\* 'json' is named and a SQLiteStorage for 'sqlite', and throws for every
\* other name.
C17_CreateStorage ==
    [][ret'.op = "createStorage"
          => IF ret'.backend \in { None, Some("json") }
             THEN ret'.threw = None /\ ret'.val = Some("JSONStorage")
             ELSE IF ret'.backend = Some("sqlite")
             THEN ret'.threw = None /\ ret'.val = Some("SQLiteStorage")
             ELSE ret'.threw # None /\ ret'.val = None]_vars

\* C18 (as claimed): detectBackend answers sqlite when cache.db is present,
\* json when only index.json is present, and neither of the two when neither
\* file is present.
C18_DetectBackend ==
    [][ret'.op = "detectBackend"
          => IF ret'.cacheDb THEN ret'.val = "sqlite"
             ELSE IF ret'.indexJson THEN ret'.val = "json"
             ELSE ret'.val \notin { "json", "sqlite" }]_vars

\* C19 (as claimed): when the cache directory does not exist, or exists and
\* holds no index.json (and no cache.db), no function of the facade throws:
\* get, stats and exportCache return null, list and search return an empty
\* list, and set, clear and importCache return success = false.
C19_NoMarkerNeverThrows ==
    [][(/\ ~dirExists \/ indexFile.kind = "absent"
        /\ ret'.op \in { "set", "get", "list", "stats", "clear", "search",
                          "exportCache", "importCache" })
          => /\ ret'.threw = None
             /\ ret'.op \in { "get", "stats", "exportCache" } => ret'.val = None
             /\ ret'.op \in { "list", "search" } => ret'.val = << >>
             /\ ret'.op \in { "set", "clear", "importCache" } => ret'.val.success = FALSE]_vars

\* C20: when index.json is missing or cannot be parsed, no method of the JSON
\* backend other than init throws or writes the file: get, getStats and
\* exportData return null, list returns an empty list, set, delete, clear and
\* importData return success = false, and updateStats returns nothing.
C20_UnreadableIndex ==
    [][(/\ indexFile.kind # "json"
        /\ ret'.op \in { "storage.get", "storage.set", "storage.delete", "storage.list",
                          "storage.getStats", "storage.updateStats", "storage.clear",
                          "storage.exportData", "storage.importData" })
          => /\ ret'.threw = None
             /\ indexFile' = indexFile
             /\ ret'.op \in { "storage.get", "storage.getStats", "storage.exportData",
                               "storage.updateStats" }
                    => ret'.val = None
             /\ ret'.op = "storage.list" => ret'.val = << >>
             /\ ret'.op \in { "storage.set", "storage.delete", "storage.clear",
                               "storage.importData" }
                    => ret'.val.success = FALSE]_vars

C20_Witness ==
    /\ indexFile.kind = "corrupt"
    /\ ret.op = "storage.clear"
    /\ ret.val.success = FALSE

\* C21: a facade init made when the cache directory exists returns success =
\* false with the message 'Cache already exists' and leaves the directory and
\* index.json (entries and stats) as they were; JSONStorage.init made when
\* index.json exists succeeds and leaves index.json as it was.
C21_InitKeepsStore ==
    [][/\ (ret'.op = "init" /\ dirExists)
             => /\ ret'.threw = None
                /\ ret'.val.success = FALSE
                /\ ret'.val.message = "Cache already exists"
                /\ indexFile' = indexFile
                /\ dirExists' = dirExists
       /\ (ret'.op = "storage.init" /\ indexFile.kind # "absent")
             => /\ ret'.val.success = TRUE
                /\ indexFile' = indexFile]_vars

C21_Witness ==
    /\ ret.op = "init"
    /\ ret.val.success = FALSE
    /\ Count > 0
    /\ TotalHits > 0

\* C22: list(options) returns the entries whose model equals options.model
\* when a model is given (all entries otherwise), ordered by hits descending
\* when sort = 'hits' and by created descending otherwise, truncated to at
\* most options.limit entries when a limit is given.  The code does not do
\* this: the JSON backend's list takes no options.
C22_ListOptions ==
    [][(ret'.op = "list" /\ dirExists)
         => LET o == ret'.options
                out == ret'.val
                entries == Entries
                Key(model, hits, created) ==
                    IF o.sort = Some("hits") THEN hits ELSE DateParse(created)
                matching == { i \in 1..Len(entries) :
                                o.model = None \/ entries[i].entry.model = The(o.model) }
                kept(i) == \E j \in 1..Len(out) : out[j].hash = entries[i].hash
            IN  /\ Len(out) = IF o.limit # None /\ The(o.limit) < Cardinality(matching)
                               THEN The(o.limit) ELSE Cardinality(matching)
                /\ \A j \in 1..Len(out) :
                      \E i \in matching :
                          /\ out[j].hash = entries[i].hash
                          /\ out[j].model = entries[i].entry.model
                          /\ out[j].hits = entries[i].entry.hits
                          /\ out[j].created = entries[i].entry.created
                /\ \A j, k \in 1..Len(out) :
                      j < k => /\ out[j].hash # out[k].hash
                               /\ Key(out[j].model, out[j].hits, out[j].created)
                                     >= Key(out[k].model, out[k].hits, out[k].created)
                /\ \A i \in matching, j \in 1..Len(out) :
                      ~kept(i) => Key(out[j].model, out[j].hits, out[j].created)
                                    >= Key(entries[i].entry.model, entries[i].entry.hits,
                                           entries[i].entry.created)]_vars

\* C23: from an initialized empty state, every operation of the interface
\* (init, get, set, delete, getStats, updateStats, clear, importData) made on
\* the SQL backend returns what the same operation returns on the JSON
\* backend: neither throws, a miss is absent on both, isNew, removed and
\* imported agree, and so do totalEntries, totalHits and totalSaved.  The
\* code does not do this: the SQL backend has no updateStats and no importData.
C23_SameContract ==
    [][(ret'.op \in { "init", "get", "set", "delete", "getStats", "updateStats",
                     "clear", "importData" }
          /\ Stored /\ db # None)
         => /\ ret'.sqlite.threw = None
            /\ IF ret'.op = "get" THEN (ret'.val = None) = (ret'.sqlite.val = None)
               ELSE IF ret'.op = "getStats"
               THEN /\ The(ret'.val).totalEntries = The(ret'.sqlite.val).totalEntries
                    /\ The(ret'.val).totalHits = The(ret'.sqlite.val).totalHits
                    /\ The(ret'.val).totalSaved = The(ret'.sqlite.val).totalSaved
               ELSE ret'.val = ret'.sqlite.val]_vars

\* C24: across a facade set or get, the hits of every key that is stored
\* before and after does not decrease, and it increases only when the call
\* is a successful get, by exactly 1.  The code does not do this: a set on
\* a stored key writes hits: 0.
C24_HitsMonotone ==
    [][(ret'.op \in { "set", "get" } /\ now' = now /\ Stored /\ indexFile'.kind = "json")
         => \A h \in Keys(Entries) \cap Keys(indexFile'.data.entries) :
               LET before == Lookup(Entries, h).hits
                   after == Lookup(indexFile'.data.entries, h).hits
               IN  /\ after >= before
                   /\ after > before
                        => /\ ret'.op = "get"
                           /\ ret'.val # None
                           /\ after = before + 1]_vars

\* C25: a successful facade get increases stats.totalHits by exactly 1 and
\* stats.totalSaved by the UTF-8 byte length of the response it returns; a
\* set and a get that returns nothing leave both as they are; a clear leaves
\* both as they are or, removing every entry, resets both to 0.  Hence
\* totalHits counts the successful gets since init or the last unfiltered
\* clear, and totalSaved sums the sizes of the responses they returned.
C25_StatsCountGets ==
    [][(ret'.op \in { "get", "set", "clear" } /\ now' = now
          /\ Stored /\ indexFile'.kind = "json")
         => LET before == indexFile.data.stats
                after == indexFile'.data.stats
            IN  IF ret'.op = "get" /\ ret'.val # None
                THEN /\ after.totalHits = before.totalHits + 1
                     /\ after.totalSaved = before.totalSaved + The(ret'.val).response.bytes
                ELSE IF ret'.op = "clear"
                THEN \/ /\ after.totalHits = before.totalHits
                        /\ after.totalSaved = before.totalSaved
                     \/ /\ after.totalHits = 0
                        /\ after.totalSaved = 0
                        /\ indexFile'.data.entries = << >>
                ELSE /\ after.totalHits = before.totalHits
                     /\ after.totalSaved = before.totalSaved]_vars

C25_Witness ==
    /\ ret.op = "get"
    /\ ret.val # None
    /\ The(ret.val).response = R2
    /\ TotalHits = 2
    /\ indexFile.data.stats.totalSaved = R1.bytes + R2.bytes

\* C26: a successful facade get adds 1 to the hits of the entry it reads and
\* changes nothing else in index.json but totalHits and totalSaved: the
\* entry's other fields, the other entries and totalEntries stay; and the
\* created of a key that stays stored changes only when a facade set
\* overwrites that key.
C26_GetChangesHitsOnly ==
    [][/\ \A k \in Pairs :
            (/\ ret'.op = "get"
             /\ ret'.val # None
             /\ GetCall(k[1], k[2]))
            => /\ indexFile'.kind = "json"
               /\ indexFile'.data.entries =
                     [i \in 1..Len(Entries) |->
                         IF Entries[i].hash = hashPrompt(k[1], k[2])
                         THEN [Entries[i] EXCEPT !.entry.hits = @ + 1]
                         ELSE Entries[i]]
               /\ indexFile'.data.stats.totalEntries = indexFile.data.stats.totalEntries
               /\ indexFile'.data.meta = indexFile.data.meta
       /\ (Stored /\ indexFile'.kind = "json")
            => \A h \in Keys(Entries) \cap Keys(indexFile'.data.entries) :
                  Lookup(indexFile'.data.entries, h).created # Lookup(Entries, h).created
                     => /\ ret'.op = "set"
                        /\ ret'.threw = None
                        /\ ret'.val.success
                        /\ ret'.val.hash = h
                        /\ ~ret'.val.isNew]_vars

C26_Witness ==
    /\ ret.op = "get"
    /\ ret.val # None
    /\ Count = 2
    /\ \E i \in 1..Len(Entries) :
          /\ Entries[i].entry.hits = The(ret.val).hits
          /\ Entries[i].entry.expires # None
          /\ DateParse(Entries[i].entry.created) < now

\* The TTL grammar, read from the number to the text: the texts a zeros
\* (0s) d u, where d is the decimal numeral of a value and u a unit, and
\* the milliseconds each stands for.
MaxTtlValue == 60

TtlMeaning(t) ==
    LET RECURSIVE Numeral(_)
        Numeral(n) == IF n < 10 THEN CharAt("0123456789", n + 1)
                      ELSE Numeral(n \div 10) \o CharAt("0123456789", (n % 10) + 1)
        Zeros(z) == SubSeq("00", 1, z)
        Unit(u) == IF u = "d" THEN 24 * 60 * 60 * 1000
                   ELSE IF u = "h" THEN 60 * 60 * 1000
                   ELSE IF u = "m" THEN 60 * 1000
                   ELSE 1000
    IN  UNION { { n * Unit(u) : n \in { v \in 0..MaxTtlValue :
                                          \E z \in 0..2 : t = Zeros(z) \o Numeral(v) \o u } } :
                  u \in { "d", "h", "m", "s" } }

TtlMeanings == [t \in TTLTexts |-> TtlMeaning(t)]

\* C27: parseTTL returns value x 86400000, 3600000, 60000 or 1000 for a text
\* made of decimal digits followed by exactly one of d, h, m, s, and null for
\* every other text, such as '7', '7x' and 'invalid'.
C27_ParseTTL ==
    [][ret'.op = "parseTTL"
         => /\ ret'.val # None => The(ret'.val) \in TtlMeanings[ret'.ttl]
            /\ ret'.val = None => TtlMeanings[ret'.ttl] = { }
            /\ ret'.ttl = "7d" => ret'.val = Some(604800000)
            /\ ret'.ttl \in { "7", "7x", "invalid" } => ret'.val = None]_vars

C27_Witness ==
    /\ ret.op = "parseTTL"
    /\ ret.ttl = "24h"
    /\ ret.val = Some(86400000)

\* C28: a facade set on an initialized cache given a ttl that does not match
\* the TTL grammar is rejected (it throws or returns success = false) and
\* stores nothing.  The code does not do this: it stores the entry without
\* expires and reports success.
C28_MalformedTtlRejected ==
    [][(ret'.op = "set" /\ now' = now /\ Stored /\ TtlMeanings[ret'.ttl] = { })
         => /\ ret'.threw # None \/ ~ret'.val.success
            /\ indexFile' = indexFile]_vars

\* C29: findSimilar returns at most limit results (10 when no limit is
\* given), in the order of non-increasing similarity.
C29_FindSimilarOrdered ==
    [][ret'.op = "findSimilar"
         => LET results == ret'.val.results
            IN  /\ Len(results) <= IF ret'.limit = None THEN 10 ELSE The(ret'.limit)
                /\ \A i, j \in 1..Len(results) :
                      i < j => results[i].similarity >= results[j].similarity]_vars

\* the one result kept is the more similar of two, and was stored second
C29_Witness ==
    /\ ret.op = "findSimilar"
    /\ ret.limit = Some(1)
    /\ Len(ret.val.results) = 1
    /\ ret.val.total = 2
    /\ ret.val.results[1].hash = Entries[2].hash
    /\ ret.val.results[1].similarity > 0
    /\ \E threshold \in { None, Some(0) } :
          /\ findSimilar(ret.query, threshold, None).total = 2
          /\ findSimilar(ret.query, threshold, None).results[2].similarity = 0

\* C30: with a license, findSimilar with no limit and a query equal to the
\* prompt of a stored entry, that prompt having a token longer than 2
\* characters, returns that entry with similarity 1.0, whatever else is
\* stored.  The code does not do this: when every token of the prompt occurs
\* in every stored prompt (as when the entry is the only one), each idf is
\* ln(1) = 0, the vectors are zero and the similarity is 0.
C30_IdenticalPromptIsOne ==
    [][(ret'.op = "findSimilar" /\ isPro /\ ret'.limit = None)
         => \A i \in 1..Len(Entries) :
               (Entries[i].entry.prompt = ret'.query /\ tokenize(ret'.query) # << >>)
                  => \E j \in 1..Len(ret'.val.results) :
                        /\ ret'.val.results[j].hash = Entries[i].hash
                        /\ ret'.val.results[j].similarity = 100]_vars

\* The similarity of each stored entry to the query before it is rounded, in
\* units of 1/10000.
UnroundedSimilarity(query) ==
    LET documents == [i \in 1..Len(Entries) |-> tokenize(Entries[i].entry.prompt)]
                        \o << tokenize(query) >>
        idf == inverseDocumentFrequency(documents)
    IN  [i \in 1..Len(Entries) |->
            cosineSimilarity(tfidfVector(termFrequency(tokenize(query)), idf),
                             tfidfVector(termFrequency(documents[i]), idf))]

\* C31: with a license, findSimilar returns only entries whose unrounded
\* similarity to the query is at or above the threshold (0.3 when none is
\* given), total counts every such entry, with no limit given every such
\* entry is returned, and on an empty store the result is empty.  (ret is
\* the last call, and findSimilar leaves the store as it was.)
C31_ThresholdRetains ==
    (ret.op = "findSimilar" /\ isPro /\ Stored)
      => LET similarity == UnroundedSimilarity(ret.query)
             threshold == IF ret.threshold = None THEN 3000 ELSE The(ret.threshold)
             atOrAbove == { i \in 1..Len(Entries) : similarity[i] >= threshold }
             results == ret.val.results
         IN  IF Len(Entries) = 0 THEN results = << >>
             ELSE /\ ret.val.total = Cardinality(atOrAbove)
                  /\ \A j \in 1..Len(results) :
                        \E i \in atOrAbove : results[j].hash = Entries[i].hash
                  /\ ret.limit = None
                       => \A i \in atOrAbove :
                             \E j \in 1..Len(results) :
                                results[j].hash = Entries[i].hash

\* of two entries one is at the threshold given (0) and is returned, and at
\* the default threshold one is retained and the other is not
C31_Witness ==
    /\ ret.op = "findSimilar"
    /\ isPro
    /\ Len(Entries) = 2
    /\ ret.threshold = Some(0)
    /\ ret.limit = None
    /\ ret.val.total = 2
    /\ ret.val.results[2].similarity = 0
    /\ findSimilar(ret.query, None, None).total = 1

\* C32: with a license, findSimilar puts an entry with the greater unrounded
\* similarity before one with the smaller, also when the two round to the
\* same hundredth, and leaves entries of equal similarity in entry order.
\* The code does not do this: it sorts the rounded values, so that two
\* entries that round alike stay in entry order.
C32_OrderedByUnrounded ==
    (ret.op = "findSimilar" /\ isPro /\ Stored)
      => LET similarity == UnroundedSimilarity(ret.query)
             results == ret.val.results
             index(h) == CHOOSE i \in 1..Len(Entries) : Entries[i].hash = h
         IN  \A i, j \in 1..Len(results) :
                i < j => LET first == index(results[i].hash)
                             second == index(results[j].hash)
                         IN  \/ similarity[first] > similarity[second]
                             \/ similarity[first] = similarity[second] /\ first < second

\* C33: cosineSimilarity is 0 when either vector has no component other than
\* 0 (as an empty vector has) and when the two vectors have no key in common;
\* hence a stored prompt that shares no token longer than 2 characters with
\* the query has similarity 0 to it.
C33_ZeroWithoutOverlap ==
    /\ ret.op = "cosineSimilarity"
         => LET zeroNorm(v) == \A k \in DOMAIN v.num : v.num[k] = 0
                vec1 == ret.vec1
                vec2 == ret.vec2
            IN  (zeroNorm(vec1) \/ zeroNorm(vec2) \/ DOMAIN vec1.num \cap DOMAIN vec2.num = { })
                   => ret.val = 0
    /\ (ret.op = "findSimilar" /\ isPro /\ Stored)
         => LET words(text) == { tokenize(text)[i] : i \in 1..Len(tokenize(text)) }
            IN  \A i \in 1..Len(Entries) :
                   words(Entries[i].entry.prompt) \cap words(ret.query) = { }
                      => UnroundedSimilarity(ret.query)[i] = 0

\* two empty vectors have been compared
C33_Witness ==
    /\ ret.op = "cosineSimilarity"
    /\ ret.vec1.num = << >> /\ ret.vec2.num = << >>
    /\ ret.val = 0

\* C34: isPro is false when no license file is stored; activateLicense with
\* a key that is not "LMC-" and a body of three parts followed by "-" and the
\* checksum of "LMC-" and that body fails and leaves the license file as it
\* was; after an activateLicense that succeeds isPro is true, and stays true
\* until a deactivateLicense; deactivateLicense succeeds exactly when a
\* license file existed, and after it isPro is false.
C34_LicenseMachine ==
    [][LET \* the first four hexadecimal digits, in upper case, of the MD5
           \* digests of the key bodies, as md5sum gives them
           Md5Reference ==
               [body \in { "LMC-1234-5678-9012", "LMC-AAAA-BBBB-CCCC", "LMC-0000-0000-0000" } |->
                   CASE body = "LMC-1234-5678-9012" -> "AC17"
                     [] body = "LMC-AAAA-BBBB-CCCC" -> "DAE7"
                     [] body = "LMC-0000-0000-0000" -> "3768"]
       IN  /\ licenseFile = None => ~isPro
           /\ (ret'.op = "activateLicense" /\ now' = now)
                => /\ (\/ ret'.key = None
                       \/ ~\E body \in DOMAIN Md5Reference :
                             The(ret'.key) = body \o "-" \o Md5Reference[body])
                      => (~ret'.val.success /\ licenseFile' = licenseFile)
                   /\ ret'.val.success => isPro'
           /\ (isPro /\ ~isPro') => (ret'.op = "deactivateLicense" /\ now' = now)
           /\ (ret'.op = "deactivateLicense" /\ now' = now)
                => /\ ret'.val.success <=> licenseFile # None
                   /\ ~isPro']_vars

\* a license was activated, the clock advanced, and the license is still there
C34_Witness ==
    /\ ret.op = "activateLicense"
    /\ ret.val.success
    /\ ret.key = Some("LMC-AAAA-BBBB-CCCC-DAE7")
    /\ licenseFile # None
    /\ The(licenseFile).key = "LMC-AAAA-BBBB-CCCC-DAE7"
    /\ now > DateParse(The(licenseFile).activatedAt)
    /\ isPro

\* C35: without a license and with 50 entries stored, a facade set of a key
\* that is stored (with a response of admissible size) succeeds with isNew
\* false and replaces the stored response.  The code does not do this: it
\* refuses every set made when 50 entries are stored.
C35_OverwriteAtCeiling ==
    [][\A k \in LimitPairs : \A r \in LimitResponses :
          (/\ ret'.op = "set" /\ ~isPro /\ SetCall(k[1], r, k[2], NoOptions)
           /\ Count = 50 /\ Has(Entries, hashPrompt(k[1], k[2])) /\ r.bytes <= 10240)
          => /\ ret'.val.success
             /\ ret'.val.isNew = FALSE
             /\ Lookup(indexFile'.data.entries, hashPrompt(k[1], k[2])).response = r]_vars

\* C36: without a license the store never holds more than 50 entries.  The
\* code does not ensure this: importCache stores every entry of the document
\* it is given, whatever the number of entries stored.
C36_FreeCeiling ==
    ~isPro => Count <= FREE_LIMITS.maxEntries

\* C37: two different (model, prompt) pairs, no model meaning 'default', get
\* different keys, also when a model or a prompt contains ':'; so a facade
\* set for one pair leaves the entry of every other pair as it was, and a
\* facade get for one pair returns only what was stored for that pair.  The
\* code does not do this: the key is the digest of model, ':' and prompt put
\* together, which two pairs can spell alike.
C37_PairsKeptApart ==
    [][/\ ret'.op = "hashPrompt"
             => LET x == ret'.val.first
                    y == ret'.val.second
                IN  (x.prompt # y.prompt \/ ModelOf(x.model) # ModelOf(y.model))
                       => x.hash # y.hash
       /\ \A k \in Pairs :
             (ret'.op = "set" /\ SetCall(k[1], R1, k[2], NoOptions))
             => \A i \in 1..Len(Entries) :
                   (Entries[i].entry.prompt # k[1] \/ Entries[i].entry.model # ModelOf(k[2]))
                   => /\ i <= Len(indexFile'.data.entries)
                      /\ indexFile'.data.entries[i] = Entries[i]
       /\ \A k \in Pairs :
             (ret'.op = "get" /\ GetCall(k[1], k[2]) /\ ret'.val # None)
             => \E i \in 1..Len(Entries) :
                   /\ Entries[i].hash = hashPrompt(k[1], k[2])
                   /\ Entries[i].entry.prompt = k[1]
                   /\ Entries[i].entry.model = ModelOf(k[2])]_vars

\* The step in which `process` saves and returns from a set of a key that was
\* new when it loaded, the last call to return being a set by the other
\* process of another key, new when that one loaded, and `process` having
\* loaded either the file the other had loaded or the file the other saved.
SecondSetReturns(process) ==
    /\ inFlight[process] # None
    /\ inFlight'[process] = None
    /\ The(inFlight[process]).call.method = "set"
    /\ The(inFlight[process]).file.kind = "json"
    /\ ~Has(The(inFlight[process]).file.data.entries, The(inFlight[process]).call.hash)
    /\ ret.op = "set"
    /\ ret.process # process
    /\ ret.call.hash # The(inFlight[process]).call.hash
    /\ ret.val.success
    /\ ret.val.isNew
    /\ The(inFlight[process]).file \in { ret.loaded, indexFile }

\* C38 as claimed: when two processes each set a new key, the two keys
\* different, both entries are stored once both calls have returned and
\* totalEntries is 2 more than before the calls, however the loads and the
\* saves interleave.
C38_BothSetsSurvive ==
    [][\A process \in 1..2 :
          SecondSetReturns(process)
            => /\ Has(indexFile'.data.entries, ret.call.hash)
               /\ Has(indexFile'.data.entries, ret'.call.hash)
               /\ indexFile'.data.stats.totalEntries
                     = ret.loaded.data.stats.totalEntries + 2]_vars

\* C38 as amended: the entry of the process that saves last is stored once
\* both calls have returned.  When that process loaded after the other had
\* saved, the other entry is stored too and totalEntries is 2 more than before
\* the calls; when it loaded before, the other entry is not stored and
\* totalEntries is 1 more.
C38_LastSetSurvives ==
    [][\A process \in 1..2 :
          SecondSetReturns(process)
            => /\ Has(indexFile'.data.entries, ret'.call.hash)
               /\ The(inFlight[process]).file = indexFile
                    => /\ Has(indexFile'.data.entries, ret.call.hash)
                       /\ indexFile'.data.stats.totalEntries
                             = ret.loaded.data.stats.totalEntries + 2
               /\ The(inFlight[process]).file # indexFile
                    => /\ ~Has(indexFile'.data.entries, ret.call.hash)
                       /\ indexFile'.data.stats.totalEntries
                             = ret.loaded.data.stats.totalEntries + 1]_vars

\* both processes loaded the same file, process 1 has saved "h1" and
\* returned, and process 2 is about to save "h2"
C38_Witness ==
    /\ inFlight[2] # None
    /\ The(inFlight[2]).call.method = "set"
    /\ The(inFlight[2]).call.hash = "h2"
    /\ ret.op = "set"
    /\ ret.process = 1
    /\ ret.call.hash = "h1"
    /\ ret.val.success
    /\ ret.val.isNew
    /\ The(inFlight[2]).file = ret.loaded
    /\ Has(Entries, "h1")
    /\ ~Has(Entries, "h2")

\* C39: every document that set, delete, clear and importData save, the loads
\* and the saves of two processes interleaving, has stats.totalEntries equal
\* to the number of its entries.
C39_CounterMatchesEntries ==
    Stored => indexFile.data.stats.totalEntries = Cardinality(Keys(indexFile.data.entries))

\* process 2 has saved an entry since process 1 loaded, and process 1 has yet
\* to save
C39_Witness ==
    /\ inFlight[1] # None
    /\ The(inFlight[1]).file.kind = "json"
    /\ The(inFlight[1]).file # indexFile
    /\ ret.op \in { "set", "importData" }
    /\ ret.process = 2
    /\ ret.loaded = The(inFlight[1]).file
    /\ ret.val.success
    /\ indexFile.data.stats.totalEntries = 1
    /\ Count = 1

\* C40: with a license, on a directory detected as sqlite or as json (the
\* index readable), a facade set succeeds, and a facade get of the pair that
\* was just set returns the response set.  The code does not do this on a
\* sqlite directory: the SQLiteStorage that getStorage makes is never given
\* init(), its getStats() returns null, and set throws.
C40_UsableWithoutInit ==
    [][\A k \in Pairs :
          /\ \A r \in { R1, R2 } :
                (/\ ret'.op = "set" /\ SetCall(k[1], r, k[2], NoOptions)
                 /\ dirExists /\ (db # None \/ Stored))
                => /\ ret'.threw = None
                   /\ ret'.val.success
          /\ (/\ ret'.op = "get" /\ GetCall(k[1], k[2])
              /\ ret.op = "set" /\ ret.threw = None /\ ret.val.success
              /\ ret.val.hash = hashPrompt(k[1], k[2]))
             => /\ ret'.val # None
                /\ \E r \in { R1, R2 } :
                      /\ The(ret'.val).response = r
                      /\ SetCall(k[1], r, k[2], NoOptions)]_vars
====
